---- MODULE Spec2Model ----
(***************************************************************************)
(* Model of the filename builder and the collision-safe file placement of  *)
(* jane-pdf-renamer (src/core/renamer.py, with PatientInfo from            *)
(* src/core/parser.py).                                                    *)
(*                                                                         *)
(* Text is a sequence of one-character strings, so that formatting,        *)
(* sanitising, slicing and substring search are computed, not assumed.     *)
(* An Optional value is a sequence of length 0 (None) or 1 (<<value>>).    *)
(***************************************************************************)
EXTENDS Integers, Sequences, FiniteSets, TLC

VARIABLES
    fs,        \* the files: a function from <<directory, name>> to content
    dirs,      \* the directories that exist
    today,     \* what date.today() returns
    proc,      \* per invocation of rename_file: position and local variables
    calls,     \* number of rename_file invocations started so far
    history,   \* the successful placements so far (what the callers received)
    gen,       \* one direct application of generate_filename: inputs and result
    par,       \* one call of parse on the parser instance: inputs, locals and result
    ext,       \* one application of the extractor's whitespace normalisation
    app        \* one run of an application's processing path: position and locals

vars == <<fs, dirs, today, proc, calls, history, gen, par, ext, app>>

(***************************************************************************)
(* Optional values and text helpers                                        *)
(***************************************************************************)
None == <<>>

Some(x) == <<x>>

IsNone(o) == Len(o) = 0

\* Python truthiness of an Optional[str]: None and "" are both falsy.
TruthyStr(o) == Len(o) = 1 /\ Len(o[1]) > 0

\* Python truthiness of an Optional[date] / Optional[enum]: falsy only if None.
TruthyObj(o) == Len(o) = 1

\* sub in s (Python's substring test)
Contains(s, sub) ==
    \E i \in 1..(Len(s) - Len(sub) + 1) : SubSeq(s, i, i + Len(sub) - 1) = sub

DIGITS == <<"0", "1", "2", "3", "4", "5", "6", "7", "8", "9">>

HEXDIGITS == <<"0", "1", "2", "3", "4", "5", "6", "7", "8", "9",
               "a", "b", "c", "d", "e", "f">>

\* "%02d" of a number below 100
Pad2(n) == <<DIGITS[(n \div 10) + 1], DIGITS[(n % 10) + 1]>>

\* datetime.date
Date(y, m, d) == [year |-> y, month |-> m, day |-> d]

\* date.strftime("%m%d%y"): month, day and the year without its century
strftime_mdy(d) == Pad2(d.month) \o Pad2(d.day) \o Pad2(d.year % 100)

(***************************************************************************)
(* FileFormat and FORMAT_CONFIG                                            *)
(***************************************************************************)
FileFormat == {"current_discharge", "appt_billing", "appt_billing_eval",
               "appt_billing_progress", "appt_billing_discharge"}

PT == <<"P", "T", " ">>

NOTE == <<"N", "o", "t", "e">>

FORMAT_CONFIG(fmt) ==
    CASE fmt = "current_discharge" ->
           [use_current_date |-> TRUE,
            suffix |-> PT \o <<"C", "h", "a", "r", "t", " ">> \o NOTE]
      [] fmt = "appt_billing" ->
           [use_current_date |-> FALSE, suffix |-> PT \o NOTE]
      [] fmt = "appt_billing_eval" ->
           [use_current_date |-> FALSE,
            suffix |-> PT \o <<"E", "v", "a", "l", " ">> \o NOTE]
      [] fmt = "appt_billing_progress" ->
           [use_current_date |-> FALSE,
            suffix |-> PT \o <<"P", "r", "o", "g", "r", "e", "s", "s", " ">> \o NOTE]
      [] fmt = "appt_billing_discharge" ->
           [use_current_date |-> FALSE,
            suffix |-> PT \o <<"D", "i", "s", "c", "h", "a", "r", "g", "e", " ">> \o NOTE]

(***************************************************************************)
(* FileRenamer._sanitize_filename                                          *)
(***************************************************************************)
\* a variant of invalid_chars without the two path separators
invalid_chars_NoSeparators == <<":", "<", ">", "\"", "|", "?", "*">>

invalid_chars == <<"/", "\\", ":", "<", ">", "\"", "|", "?", "*">>

\* str.replace(char, '')
RemoveChar(s, ch) == SelectSeq(s, LAMBDA x : x # ch)

RECURSIVE SanitizeFrom(_, _)
SanitizeFrom(s, i) ==
    IF i > Len(invalid_chars) THEN s
    ELSE SanitizeFrom(RemoveChar(s, invalid_chars[i]), i + 1)

\* a variant of _sanitize_filename whose replace() results are discarded
sanitize_filename_Discarded(filename) == filename

sanitize_filename(filename) == SanitizeFrom(filename, 1)

(***************************************************************************)
(* FileRenamer.generate_filename                                           *)
(* The result is [ok |-> TRUE, name |-> text] or, for the ValueError,      *)
(* [ok |-> FALSE, name |-> <<>>].                                          *)
(***************************************************************************)
\* a variant of line 82 that ignores the format passed to the call
EffectiveFormat_SelfOnly(file_format, self_format) == self_format

\* fmt = file_format or self.file_format
EffectiveFormat(file_format, self_format) ==
    IF TruthyObj(file_format) THEN file_format[1] ELSE self_format

\* a variant of date_part that prefers the appointment date to today
DatePart_ApptFirst(info, use_current_date, now) ==
    IF TruthyObj(info.appointment_date)
    THEN Some(strftime_mdy(info.appointment_date[1]))
    ELSE IF use_current_date THEN Some(strftime_mdy(now))
    ELSE None

\* The supplementary date of the date_code branch (date_part), as an Optional
DatePart(info, use_current_date, now) ==
    IF use_current_date THEN Some(strftime_mdy(now))
    ELSE IF TruthyObj(info.appointment_date)
         THEN Some(strftime_mdy(info.appointment_date[1]))
         ELSE None

\* a variant of date_str that tests date_code with "is not None"
DateStr_IsNotNone(info, use_current_date, now) ==
    IF TruthyObj(info.date_code)
    THEN LET date_part == DatePart(info, use_current_date, now)
         IN  IF TruthyStr(date_part)
             THEN Some(info.date_code[1] \o <<" ">> \o date_part[1])
             ELSE Some(info.date_code[1])
    ELSE IF use_current_date THEN Some(strftime_mdy(now))
    ELSE IF TruthyObj(info.appointment_date)
         THEN Some(strftime_mdy(info.appointment_date[1]))
         ELSE None

\* date_str, as an Optional: None stands for the raise ValueError
DateStr(info, use_current_date, now) ==
    IF TruthyStr(info.date_code)
    THEN LET date_part == DatePart(info, use_current_date, now)
         IN  IF TruthyStr(date_part)
             THEN Some(info.date_code[1] \o <<" ">> \o date_part[1])
             ELSE Some(info.date_code[1])
    ELSE IF use_current_date THEN Some(strftime_mdy(now))
    ELSE IF TruthyObj(info.appointment_date)
         THEN Some(strftime_mdy(info.appointment_date[1]))
         ELSE None

generate_filename(info, file_format, self_format, now) ==
    LET cfg      == FORMAT_CONFIG(EffectiveFormat(file_format, self_format))
        date_str == DateStr(info, cfg.use_current_date, now)
    IN  IF IsNone(date_str)
        THEN [ok |-> FALSE, name |-> <<>>]
        ELSE [ok |-> TRUE,
              name |-> sanitize_filename(
                  info.last_name \o <<",", " ">> \o info.first_name \o <<" ">>
                  \o date_str[1] \o <<" ">> \o cfg.suffix
                  \o <<".", "p", "d", "f">>)]

(***************************************************************************)
(* The filesystem: pathlib.Path, hashing and shutil.move                   *)
(***************************************************************************)
\* A Path is a spelling ("abs" or "rel") of a directory plus a final name.
\* Path equality (==, !=) compares spellings; the filesystem resolves them.
Resolve(path) == <<path.dir, path.name>>

NoPath == [sp |-> "abs", dir |-> "", name |-> <<>>]

\* Path.exists()
Exists(f, d, path) == path.dir \in d /\ Resolve(path) \in DOMAIN f

\* target_dir / filename
JoinPath(target_dir, filename) ==
    [sp |-> target_dir.sp, dir |-> target_dir.dir, name |-> filename]

\* Path.parent
Parent(path) == [sp |-> path.sp, dir |-> path.dir]

\* the last index of ch in s, 0 if there is none (str.rfind, 1-based)
RFind(s, ch) ==
    LET hits == {i \in 1..Len(s) : s[i] = ch}
    IN  IF hits = {} THEN 0 ELSE CHOOSE i \in hits : \A j \in hits : j <= i

\* Path.stem: the name without its last suffix (a leading or a final dot
\* starts no suffix)
Stem(name) ==
    LET i == RFind(name, ".")
    IN  IF 1 < i /\ i < Len(name) THEN SubSeq(name, 1, i - 1) ELSE name

\* A file's content is a number. Two contents are byte-identical iff they are
\* the same number.
\* The number of distinct 6-character prefixes the digests of the modelled
\* contents have: contents c and c + ShortHashClasses share their first 6 hex
\* characters and differ later in the digest.
ShortHashClasses == 2

\* hashlib.md5(content).hexdigest(): 32 hex characters, one digest per
\* content (MD5 is taken as collision-free on whole digests).
md5_hexdigest(c) ==
    [i \in 1..32 |->
        HEXDIGITS[(((IF i <= 6 THEN c % ShortHashClasses
                               ELSE c \div ShortHashClasses) + i) % 16) + 1]]

\* FileRenamer._compute_full_hash: Some(digest), or None when open() raises
\* because the file is not there. The file's read permission is not modelled.
compute_full_hash(f, d, path) ==
    IF Exists(f, d, path) THEN Some(md5_hexdigest(f[Resolve(path)])) ELSE None

\* a variant of _compute_short_hash that keeps 8 characters
compute_short_hash_Long(f, d, path) ==
    LET full == compute_full_hash(f, d, path)
    IN  IF IsNone(full) THEN None ELSE Some(SubSeq(full[1], 1, 8))

\* FileRenamer._compute_short_hash: the digest's first 6 characters
compute_short_hash(f, d, path) ==
    LET full == compute_full_hash(f, d, path)
    IN  IF IsNone(full) THEN None ELSE Some(SubSeq(full[1], 1, 6))

\* the function f without the point k
Without(f, k) == [q \in (DOMAIN f) \ {k} |-> f[q]]

\* a variant of shutil.move that copies and leaves the source in place
shutil_move_Copy(f, src, dst) ==
    (Resolve(dst) :> f[Resolve(src)]) @@ f

\* shutil.move(src, dst) of an existing file src to a file path dst whose
\* directory exists: the content is at dst (replacing what was there) and,
\* unless dst is src itself, no longer at src.
shutil_move(f, src, dst) ==
    IF Resolve(src) = Resolve(dst) THEN f
    ELSE (Resolve(dst) :> f[Resolve(src)]) @@ Without(f, Resolve(src))

\* Path.unlink() of an existing file
unlink(f, path) == Without(f, Resolve(path))

(***************************************************************************)
(* Text as the parser's string methods and regular expressions see it      *)
(* (ASCII: the letters, digits and whitespace of the modelled documents)   *)
(***************************************************************************)
LOWER == <<"a", "b", "c", "d", "e", "f", "g", "h", "i", "j", "k", "l", "m", "n", "o", "p", "q", "r", "s", "t", "u", "v", "w", "x", "y", "z">>

UPPER == <<"A", "B", "C", "D", "E", "F", "G", "H", "I", "J", "K", "L", "M", "N", "O", "P", "Q", "R", "S", "T", "U", "V", "W", "X", "Y", "Z">>

\* the whitespace of str.strip(), str.split() and \s
Whitespace == {" ", "\t", "\n", "\r", "\f"}

\* \d
DigitChars == {DIGITS[i] : i \in DOMAIN DIGITS}

\* [A-Z]
UpperChars == {UPPER[i] : i \in DOMAIN UPPER}

\* \w
WordChars == DigitChars \cup UpperChars \cup {LOWER[i] : i \in DOMAIN LOWER} \cup {"_"}

\* the character at index i, "" where the text has none
At(s, i) == IF i \in 1..Len(s) THEN s[i] ELSE ""

\* the end of the longest run of characters of class cls that starts at i:
\* the index of the first character from i on that is not in cls
Skip(s, i, cls) ==
    IF i > Len(s) THEN i
    ELSE CHOOSE j \in i..(Len(s) + 1) :
            /\ At(s, j) \notin cls
            /\ \A k \in i..(j - 1) : s[k] \in cls

\* the index of the first character from i on that is in cls, the end of the
\* text if there is none
SkipTo(s, i, cls) ==
    IF i > Len(s) THEN i
    ELSE CHOOSE j \in i..(Len(s) + 1) :
            /\ j = Len(s) + 1 \/ s[j] \in cls
            /\ \A k \in i..(j - 1) : s[k] \notin cls

Least(S) == CHOOSE x \in S : \A y \in S : x <= y

Greatest(S) == CHOOSE x \in S : \A y \in S : y <= x

\* str.lower() and str.upper()
lower(s) == [i \in 1..Len(s) |->
                IF s[i] \in UpperChars
                THEN LOWER[CHOOSE k \in DOMAIN UPPER : UPPER[k] = s[i]] ELSE s[i]]

upper(s) == [i \in 1..Len(s) |->
                IF \E k \in DOMAIN LOWER : LOWER[k] = s[i]
                THEN UPPER[CHOOSE k \in DOMAIN LOWER : LOWER[k] = s[i]] ELSE s[i]]

\* str.strip(): from the first to the last character that is not whitespace
strip(s) ==
    SubSeq(s, Skip(s, 1, Whitespace),
           Greatest({0} \cup {i \in 1..Len(s) : s[i] \notin Whitespace}))

\* str.split(sep) for a one-character separator
RECURSIVE split_on(_, _)
split_on(s, sep) ==
    IF SkipTo(s, 1, {sep}) > Len(s) THEN <<s>>
    ELSE <<SubSeq(s, 1, SkipTo(s, 1, {sep}) - 1)>>
         \o split_on(SubSeq(s, SkipTo(s, 1, {sep}) + 1, Len(s)), sep)

\* the maximal runs of non-whitespace characters from index a on, where a is
\* past the end of the text or the start of such a run
RECURSIVE split_from(_, _)
split_from(s, a) ==
    IF a > Len(s) THEN <<>>
    ELSE <<SubSeq(s, a, SkipTo(s, a, Whitespace) - 1)>>
         \o split_from(s, Skip(s, SkipTo(s, a, Whitespace), Whitespace))

\* str.split(): the maximal runs of non-whitespace characters
split(s) == split_from(s, Skip(s, 1, Whitespace))

\* ' '.join(parts)
RECURSIVE join(_)
join(parts) ==
    IF Len(parts) = 0 THEN <<>>
    ELSE IF Len(parts) = 1 THEN parts[1]
    ELSE parts[1] \o <<" ">> \o join(Tail(parts))

\* '\n'.join(lines)
RECURSIVE join_lines(_)
join_lines(lines) ==
    IF Len(lines) = 0 THEN <<>>
    ELSE IF Len(lines) = 1 THEN lines[1]
    ELSE lines[1] \o <<"\n">> \o join_lines(Tail(lines))

\* str.isdigit()
isdigit(s) == Len(s) > 0 /\ \A i \in 1..Len(s) : s[i] \in DigitChars

\* int(s) for a run of digits
RECURSIVE int(_)
int(s) ==
    IF Len(s) = 0 THEN 0
    ELSE 10 * int(SubSeq(s, 1, Len(s) - 1))
         + (CHOOSE k \in DOMAIN DIGITS : DIGITS[k] = s[Len(s)]) - 1

(***************************************************************************)
(* src/core/parser.py: the regular expressions                             *)
(***************************************************************************)
\* MONTH_MAP: the month names, each at the index that is its number
MONTH_MAP == <<<<"j", "a", "n", "u", "a", "r", "y">>,
              <<"f", "e", "b", "r", "u", "a", "r", "y">>,
              <<"m", "a", "r", "c", "h">>,
              <<"a", "p", "r", "i", "l">>,
              <<"m", "a", "y">>,
              <<"j", "u", "n", "e">>,
              <<"j", "u", "l", "y">>,
              <<"a", "u", "g", "u", "s", "t">>,
              <<"s", "e", "p", "t", "e", "m", "b", "e", "r">>,
              <<"o", "c", "t", "o", "b", "e", "r">>,
              <<"n", "o", "v", "e", "m", "b", "e", "r">>,
              <<"d", "e", "c", "e", "m", "b", "e", "r">>>>

\* the months of MONTH_MAP whose name the text spells at index i, in any case
months_at(s, i) ==
    {m \in DOMAIN MONTH_MAP :
        /\ i + Len(MONTH_MAP[m]) - 1 <= Len(s)
        /\ lower(SubSeq(s, i, i + Len(MONTH_MAP[m]) - 1)) = MONTH_MAP[m]}

\* DATE_PATTERN from the end a of the month name on: the indexes where \s+
\* ends, where the digits after it end, and where the \s* after the comma ends
day_start(s, a) == Skip(s, a, Whitespace)

day_end(s, a) == Skip(s, day_start(s, a), DigitChars)

year_start(s, a) == Skip(s, day_end(s, a) + 1, Whitespace)

\* \s+(\d{1,2}),\s*(\d{4})\b  with the groups at b..c-1 and d..d+3
DATE_PATTERN_groups(s, i, a, b, c, d) ==
    IF /\ b > a
       /\ c - b \in {1, 2}
       /\ At(s, c) = ","
       /\ Skip(s, d, DigitChars) - d >= 4
       /\ At(s, d + 4) \notin WordChars
    THEN [ok |-> TRUE, month_name |-> SubSeq(s, i, a - 1),
          day |-> SubSeq(s, b, c - 1), year |-> SubSeq(s, d, d + 3)]
    ELSE [ok |-> FALSE]

\* one attempt of DATE_PATTERN at index i (re.IGNORECASE):
\*   \b(January|...|December)\s+(\d{1,2}),\s*(\d{4})\b
DATE_PATTERN_after_month(s, i, a) ==
    DATE_PATTERN_groups(s, i, a, day_start(s, a), day_end(s, a), year_start(s, a))

DATE_PATTERN_match(s, i) ==
    IF At(s, i - 1) \in WordChars \/ months_at(s, i) = {} THEN [ok |-> FALSE]
    ELSE DATE_PATTERN_after_month(
             s, i, i + Len(MONTH_MAP[CHOOSE m \in months_at(s, i) : TRUE]))

\* DATE_PATTERN.search(text): the leftmost match, as an Optional
DATE_PATTERN_search(s) ==
    IF \A i \in 1..Len(s) : ~DATE_PATTERN_match(s, i).ok THEN None
    ELSE Some(DATE_PATTERN_match(
                  s, Least({i \in 1..Len(s) : DATE_PATTERN_match(s, i).ok})))

\* one attempt of TRAILING_NUMBER_PATTERN at index i:  \s+\d+$
TRAILING_NUMBER_PATTERN_match(s, i) ==
    /\ Skip(s, i, Whitespace) \in (i + 1)..Len(s)
    /\ \A k \in Skip(s, i, Whitespace)..Len(s) : s[k] \in DigitChars

\* a variant of TRAILING_NUMBER_PATTERN.sub that leaves the number in place
TRAILING_NUMBER_PATTERN_sub_Kept(s) == s

\* TRAILING_NUMBER_PATTERN.sub('', s): the match, which ends the text, removed
TRAILING_NUMBER_PATTERN_sub(s) ==
    IF \A i \in 1..Len(s) : ~TRAILING_NUMBER_PATTERN_match(s, i) THEN s
    ELSE SubSeq(s, 1, Least({i \in 1..Len(s) : TRAILING_NUMBER_PATTERN_match(s, i)}) - 1)

\* one attempt of INITIALS_PATTERN at index i:  _([A-Z]{2})_\d{8}_
INITIALS_PATTERN_match(s, i) ==
    /\ i + 12 <= Len(s)
    /\ s[i] = "_" /\ s[i + 1] \in UpperChars /\ s[i + 2] \in UpperChars
    /\ s[i + 3] = "_"
    /\ \A k \in (i + 4)..(i + 11) : s[k] \in DigitChars
    /\ s[i + 12] = "_"

\* [/\-]
DateSeparators == {"/", "-"}

\* an optional character of class cls at index k: the index after it
OptionalChar(s, k, cls) == IF At(s, k) \in cls THEN k + 1 ELSE k

\* DOI_DOB_PATTERN from its parenthesis at index a on: the indexes where the
\* three groups of two digits start
month_start(s, a) == Skip(s, OptionalChar(s, a + 4, {":"}), Whitespace)

day_of_code_start(s, a) == OptionalChar(s, month_start(s, a) + 2, DateSeparators)

year_of_code_start(s, a) == OptionalChar(s, day_of_code_start(s, a) + 2, DateSeparators)

\* \((DOI|DOB):?\s*(\d{2})[/\-]?(\d{2})[/\-]?(\d{2})\)\s*$  with the
\* parenthesis at a and the groups of digits at c, d and e
DOI_DOB_PATTERN_groups(s, i, a, c, d, e) ==
    IF /\ At(s, a) = "("
       /\ a + 3 <= Len(s)
       /\ upper(SubSeq(s, a + 1, a + 3)) \in {<<"D", "O", "I">>, <<"D", "O", "B">>}
       /\ \A k \in {c, c + 1, d, d + 1, e, e + 1} : At(s, k) \in DigitChars
       /\ At(s, e + 2) = ")"
       /\ Skip(s, e + 3, Whitespace) = Len(s) + 1
    THEN [ok |-> TRUE, start |-> i,
          group1 |-> SubSeq(s, a + 1, a + 3), group2 |-> SubSeq(s, c, c + 1),
          group3 |-> SubSeq(s, d, d + 1), group4 |-> SubSeq(s, e, e + 1)]
    ELSE [ok |-> FALSE]

DOI_DOB_PATTERN_after_space(s, i, a) ==
    DOI_DOB_PATTERN_groups(s, i, a, month_start(s, a), day_of_code_start(s, a),
                           year_of_code_start(s, a))

\* one attempt of DOI_DOB_PATTERN at index i (re.IGNORECASE):
\*   \s*\((DOI|DOB):?\s*(\d{2})[/\-]?(\d{2})[/\-]?(\d{2})\)\s*$
DOI_DOB_PATTERN_match(s, i) == DOI_DOB_PATTERN_after_space(s, i, Skip(s, i, Whitespace))

\* DOI_DOB_PATTERN.search(line): the leftmost match, as an Optional
DOI_DOB_PATTERN_search(s) ==
    IF \A i \in 1..Len(s) : ~DOI_DOB_PATTERN_match(s, i).ok THEN None
    ELSE Some(DOI_DOB_PATTERN_match(
                  s, Least({i \in 1..Len(s) : DOI_DOB_PATTERN_match(s, i).ok})))

\* extract_initials_from_filename: the group of the leftmost match, or None
extract_initials_from_filename(filename) ==
    IF \A i \in 1..Len(filename) : ~INITIALS_PATTERN_match(filename, i) THEN None
    ELSE Some(SubSeq(filename,
                     Least({i \in 1..Len(filename) : INITIALS_PATTERN_match(filename, i)}) + 1,
                     Least({i \in 1..Len(filename) : INITIALS_PATTERN_match(filename, i)}) + 2))

(***************************************************************************)
(* src/core/parser.py: PatientInfo and PatientInfoParser                   *)
(***************************************************************************)
\* A confidence is held in tenths: 10 for 1.0, 5 for 0.5, 0 for 0.0.
\* PatientInfo as parse builds it (lines 128-134)
ParsedInfo(first, last, appt, confidence, code) ==
    [first_name |-> first, last_name |-> last, appointment_date |-> appt,
     confidence |-> confidence, date_code |-> code]

\* PatientInfo.is_complete
is_complete(info) ==
    LET has_date == info.appointment_date # None \/ info.date_code # None
    IN  Len(info.first_name) > 0 /\ Len(info.last_name) > 0 /\ has_date

\* PatientInfo.needs_review: confidence < 0.9 or not is_complete()
needs_review(info) == info.confidence < 9 \/ ~is_complete(info)

\* the tuple _parse_patient_name returns
NameResult(first, last, found, code) ==
    [first_name |-> first, last_name |-> last, found |-> found, date_code |-> code]

\* lines 174-189 once the search of line 173 has returned doi_dob_match
name_with_code(patient_name_line, doi_dob_match) ==
    IF TruthyObj(doi_dob_match)
    THEN [date_code |-> Some(upper(doi_dob_match[1].group1)
                             \o doi_dob_match[1].group2
                             \o doi_dob_match[1].group3
                             \o doi_dob_match[1].group4),
          name |-> strip(SubSeq(patient_name_line, 1, doi_dob_match[1].start - 1))]
    ELSE [date_code |-> None,
          name |-> strip(TRAILING_NUMBER_PATTERN_sub(patient_name_line))]

\* lines 171-189: the date code of the name line and the name left of it
name_and_code(patient_name_line) ==
    name_with_code(patient_name_line, DOI_DOB_PATTERN_search(patient_name_line))

\* potential[0].upper() == initial, for a potential name that is not empty
has_initial(potential, initial) ==
    Len(potential) > 0 /\ upper(<<potential[1]>>) = upper(<<initial>>)

\* the test of lines 209-211 for one split point
initials_match(parts, split_idx, initials) ==
    /\ has_initial(join(SubSeq(parts, 1, split_idx)), initials[1])
    /\ has_initial(join(SubSeq(parts, split_idx + 1, Len(parts))), initials[2])

\* a variant of the loop of lines 204-212 that scans from the last split point
initials_split_FromEnd(parts, initials) ==
    IF ~(TruthyStr(initials) /\ Len(initials[1]) = 2) THEN 0
    ELSE IF \A k \in 1..(Len(parts) - 1) : ~initials_match(parts, k, initials[1]) THEN 0
    ELSE Greatest({k \in 1..(Len(parts) - 1) : initials_match(parts, k, initials[1])})

\* lines 199-212: the first split point whose groups match the initials, 0
\* when there is no usable hint or no split point matches
initials_split(parts, initials) ==
    IF ~(TruthyStr(initials) /\ Len(initials[1]) = 2) THEN 0
    ELSE IF \A k \in 1..(Len(parts) - 1) : ~initials_match(parts, k, initials[1]) THEN 0
    ELSE Least({k \in 1..(Len(parts) - 1) : initials_match(parts, k, initials[1])})

\* a variant of lines 220-226 without the compound last name
default_split_LastToken(parts, date_code) == Len(parts) - 1

\* lines 220-226: the number of tokens of the first name by the default rule
default_split(parts, date_code) ==
    IF TruthyStr(date_code) /\ Len(parts) >= 3 /\ isdigit(parts[Len(parts)])
    THEN Len(parts) - 2
    ELSE Len(parts) - 1

\* lines 199-226: the number of tokens of the first name
split_point(parts, initials, date_code) ==
    IF initials_split(parts, initials) > 0
    THEN initials_split(parts, initials)
    ELSE default_split(parts, date_code)

\* the names on the two sides of a split point, as lines 212 and 228 return them
name_at_split(parts, split_idx, date_code) ==
    NameResult(join(SubSeq(parts, 1, split_idx)),
               join(SubSeq(parts, split_idx + 1, Len(parts))), TRUE, date_code)

\* a variant of lines 192-228 that takes a single word as the first name
split_name_OneWordFirst(name, initials, date_code) ==
    IF Len(split(name)) < 2
    THEN NameResult(IF Len(split(name)) > 0 THEN split(name)[1] ELSE <<>>, <<>>,
                    TRUE, date_code)
    ELSE name_at_split(split(name), split_point(split(name), initials, date_code),
                       date_code)

\* lines 192-228: the name split into first and last name
split_name(name, initials, date_code) ==
    IF Len(split(name)) < 2
    THEN NameResult(<<>>, IF Len(split(name)) > 0 THEN split(name)[1] ELSE <<>>,
                    TRUE, date_code)
    ELSE name_at_split(split(name), split_point(split(name), initials, date_code),
                       date_code)

CHART == <<"c", "h", "a", "r", "t">>

\* lines 151-155: the index of the first line that reads "chart" once stripped
\* and lowered, 0 for the None of line 151
chart_index(lines) ==
    IF \A i \in 1..Len(lines) : lower(strip(lines[i])) # CHART THEN 0
    ELSE Least({i \in 1..Len(lines) : lower(strip(lines[i])) = CHART})

\* a variant of lines 161-166 that looks at the line right after the chart
\* line only
name_index_Next(lines, chart) ==
    IF chart + 1 > Len(lines) THEN 0
    ELSE IF Len(strip(lines[chart + 1])) = 0 THEN 0 ELSE chart + 1

\* lines 161-166: the index of the first line after the chart line that is not
\* empty once stripped, 0 for the None of line 161
name_index(lines, chart) ==
    IF \A i \in (chart + 1)..Len(lines) : Len(strip(lines[i])) = 0 THEN 0
    ELSE Least({i \in (chart + 1)..Len(lines) : Len(strip(lines[i])) > 0})

\* lines 192-228 for the name and the date code that lines 171-189 produced
split_name_and_code(nc, initials) == split_name(nc.name, initials, nc.date_code)

\* lines 151-228 for the lines of the text
name_of_lines(lines, initials) ==
    IF chart_index(lines) = 0 THEN NameResult(<<>>, <<>>, FALSE, None)
    ELSE IF name_index(lines, chart_index(lines)) = 0
         THEN NameResult(<<>>, <<>>, FALSE, None)
    ELSE split_name_and_code(
             name_and_code(strip(lines[name_index(lines, chart_index(lines))])),
             initials)

\* PatientInfoParser._parse_patient_name
parse_patient_name(text, initials) == name_of_lines(split_on(text, "\n"), initials)

\* calendar.monthrange: the days of a month
DaysIn(year, month) ==
    IF month = 2
    THEN IF (year % 4 = 0 /\ year % 100 # 0) \/ year % 400 = 0 THEN 29 ELSE 28
    ELSE IF month \in {4, 6, 9, 11} THEN 30 ELSE 31

\* datetime.date(year, month, day) raises ValueError unless this holds
ValidDate(year, month, day) ==
    /\ year \in 1..9999 /\ month \in 1..12 /\ day \in 1..DaysIn(year, month)

\* the tuple _parse_appointment_date returns
DateResult(d, found) == [date |-> d, found |-> found]

\* lines 251-255: the date, not found when date() raises ValueError
date_or_not_found(year, month, day) ==
    IF ValidDate(year, month, day)
    THEN DateResult(Some(Date(year, month, day)), TRUE)
    ELSE DateResult(None, FALSE)

\* lines 242-255: the date of one match
date_of_match(match) ==
    date_or_not_found(
        int(match.year),
        CHOOSE m \in DOMAIN MONTH_MAP : MONTH_MAP[m] = lower(match.month_name),
        int(match.day))

\* the matches of DATE_PATTERN in document order (re.finditer)
RECURSIVE DATE_PATTERN_finditer(_, _)
DATE_PATTERN_finditer(s, from) ==
    LET hits == {i \in from..Len(s) : DATE_PATTERN_match(s, i).ok}
    IN  IF hits = {} THEN <<>>
        ELSE <<DATE_PATTERN_match(s, Least(hits))>>
             \o DATE_PATTERN_finditer(s, Least(hits) + 1)

\* lines 239-255 once the search of line 237 has returned match
date_of_search(match) ==
    IF IsNone(match) THEN DateResult(None, FALSE) ELSE date_of_match(match[1])

\* a variant of _parse_appointment_date that goes on to the next match when
\* one is not a calendar date
parse_appointment_date_FirstValid(text) ==
    LET all   == DATE_PATTERN_finditer(text, 1)
        valid == {i \in 1..Len(all) : date_of_match(all[i]).found}
    IN  IF valid = {} THEN DateResult(None, FALSE)
        ELSE date_of_match(all[Least(valid)])

\* PatientInfoParser._parse_appointment_date
parse_appointment_date(text) == date_of_search(DATE_PATTERN_search(text))

\* a variant of _calculate_confidence that rewards an initials hint
calculate_confidence_Hint(name_found, date_found, had_initials) ==
    IF name_found /\ date_found THEN 10
    ELSE IF name_found \/ date_found THEN (IF had_initials THEN 9 ELSE 5)
    ELSE 0

\* a variant of _calculate_confidence with "or" for the "and" of line 264
calculate_confidence_Either(name_found, date_found, had_initials) ==
    IF name_found \/ date_found THEN 10 ELSE 0

\* PatientInfoParser._calculate_confidence
calculate_confidence(name_found, date_found, had_initials) ==
    IF name_found /\ date_found THEN 10
    ELSE IF name_found \/ date_found THEN 5
    ELSE 0

\* lines 113-116: the initials hint, taken from a filename that is not empty
initials_of(filename) ==
    IF TruthyStr(filename) THEN extract_initials_from_filename(filename[1]) ELSE None

\* a variant of lines 113-116 in which the hint of the preceding call stays
\* when the filename carries none
hint_at_call_Kept(previous, filename) ==
    IF initials_of(filename) = None THEN previous ELSE initials_of(filename)

\* lines 113-116 within a sequence of calls on one PatientInfoParser: initials
\* is a local that starts at None, and the class keeps no attribute, so the
\* hint of the preceding call is not consulted
hint_at_call(previous, filename) == initials_of(filename)

\* line 123
has_date_of(name, appt) == appt.found \/ name.date_code # None

\* lines 123-124 for the initials, the name and the date of lines 113-120
locals_of(initials, name, appt) ==
    [initials |-> initials, name |-> name, appt |-> appt,
     has_date |-> has_date_of(name, appt),
     confidence |-> calculate_confidence(name.found, has_date_of(name, appt),
                                         initials # None)]

\* PatientInfoParser.parse: the local variables at the return statement
parse_locals(text, filename) ==
    locals_of(initials_of(filename),
              parse_patient_name(text, initials_of(filename)),
              parse_appointment_date(text))

\* lines 128-134: the PatientInfo built from the local variables
returned(l) ==
    ParsedInfo(l.name.first_name, l.name.last_name, l.appt.date,
               l.confidence, l.name.date_code)

\* PatientInfoParser.parse
parse(text, filename) == returned(parse_locals(text, filename))

(***************************************************************************)
(* src/core/extractor.py: PDFExtractor._normalize_whitespace               *)
(***************************************************************************)
\* line 84: ' '.join(line.split())
normalize_line(line) == join(split(line))

\* a variant of lines 82-85 that leaves out the lines that come out empty
normalized_lines_NoBlank(lines) ==
    SelectSeq([i \in 1..Len(lines) |-> normalize_line(lines[i])],
              LAMBDA line : Len(line) > 0)

\* lines 80-85: every line normalised, in order
normalized_lines(lines) == [i \in 1..Len(lines) |-> normalize_line(lines[i])]

\* PDFExtractor._normalize_whitespace
normalize_whitespace(text) == join_lines(normalized_lines(split_on(text, "\n")))

(***************************************************************************)
(* Bounds and inputs of the model                                          *)
(***************************************************************************)
\* rename_file invocations per behaviour
MaxCalls == 3

\* The contents of the files waiting in the inbox directory at the start:
\* the first and the last are byte-identical copies of one document, and the
\* third shares its short hash with the first (see md5_hexdigest).
InboxContents == <<1, 2, 3, 1>>

Procs == {1, 2}

PDF == <<".", "p", "d", "f">>

\* str(n) for n >= 0
RECURSIVE Str(_)
Str(n) == IF n < 10 THEN <<DIGITS[n + 1]>> ELSE Str(n \div 10) \o <<DIGITS[(n % 10) + 1]>>

SourceName(i) == <<"s">> \o Str(i) \o PDF

InboxFiles == {<<"inbox", SourceName(i)>> : i \in DOMAIN InboxContents}

\* a path at which there is never a file
MissingPath == [sp |-> "abs", dir |-> "inbox", name |-> <<"n", "o">> \o PDF]

OutputFolder == [sp |-> "abs", dir |-> "out"]

TodayDates == {Date(2026, 1, 5), Date(2025, 12, 18)}

PatientInfo(first, last, appt, code) ==
    [first_name |-> first, last_name |-> last, appointment_date |-> appt,
     date_code |-> code]

DOI010125 == <<"D", "O", "I", "0", "1", "0", "1", "2", "5">>

\* A request is what a caller hands to generate_filename: the PatientInfo,
\* the format passed to the call and the format the renamer was built with.
Request(info, file_format, self_format) ==
    [info |-> info, file_format |-> file_format, self_format |-> self_format]

Jane(appt, code) == PatientInfo(<<"J">>, <<"D">>, appt, code)

Dec18 == Date(2025, 12, 18)

\* The requests made of rename_file: one patient; the date_code absent, empty
\* or set; the appointment date absent or set; a format that uses the
\* appointment date or the current date.
RenameRequests ==
    {Request(Jane(appt, code), None, "appt_billing") :
        appt \in {None, Some(Dec18)}, code \in {None, Some(<<>>)}}
    \cup {Request(Jane(None, Some(DOI010125)), None, "appt_billing"),
          Request(Jane(None, None), Some("current_discharge"), "appt_billing")}

\* What one specification lets a caller pass to rename_file.
\*   exclusive:  one invocation at a time (the synchronous pipeline)
\*   procs:      the invocations that may run
\*   spellings:  how the caller spells the source path
SeqInputs ==
    [exclusive |-> TRUE, procs |-> {1}, max_calls |-> MaxCalls,
     spellings |-> {"abs"}, requests |-> RenameRequests,
     output_folders |-> {None, Some(OutputFolder)}]

(***************************************************************************)
(* FileRenamer.rename_file, one action per filesystem access               *)
(***************************************************************************)
IdleProc ==
    [pc |-> "idle", source_path |-> NoPath, info |-> PatientInfo(<<>>, <<>>, None, None),
     file_format |-> None, self_format |-> "appt_billing", output_folder |-> None,
     filename |-> <<>>, target_path |-> NoPath, desired |-> NoPath,
     hash1 |-> None, short_hash |-> <<>>, stem |-> <<>>, new_target |-> NoPath,
     counter |-> 0, outcome |-> "none", result |-> NoPath,
     \* history variables: the filesystem when the call began, the files the
     \* call hashed, the path its move wrote, and how _files_are_identical
     \* went: "none" (not called), "read" (hash1 taken), "compared" (both
     \* taken) or "failed" (an exception reached lines 246-248)
     fs0 |-> <<>>, dirs0 |-> {}, hashed |-> {}, moved |-> None, compare |-> "none"]

Active(p) == proc[p].pc \notin {"idle", "done"}

\* raise: the invocation ends with the exception
Raise(p, exc) == [proc EXCEPT ![p].pc = "done", ![p].outcome = exc]

\* the paths a caller may pass: a file that exists, or one that does not
SourcePaths(inp) ==
    {[sp |-> s, dir |-> k[1], name |-> k[2]] : s \in inp.spellings, k \in DOMAIN fs}
    \cup {MissingPath}

\* line 162: the call is made and its arguments are bound
RenameFile_Call(p, inp) ==
    /\ p \in inp.procs
    /\ proc[p].pc = "idle"
    /\ calls < inp.max_calls
    /\ inp.exclusive => \A q \in Procs : proc[q].pc = "idle"
    /\ \E src \in SourcePaths(inp), req \in inp.requests, of \in inp.output_folders :
          /\ \A q \in Procs \ {p} : Active(q) => Resolve(proc[q].source_path) # Resolve(src)
          /\ proc' = [proc EXCEPT ![p] =
                [IdleProc EXCEPT !.pc = "check_source", !.source_path = src,
                                 !.info = req.info, !.file_format = req.file_format,
                                 !.self_format = req.self_format,
                                 !.output_folder = of,
                                 !.fs0 = fs, !.dirs0 = dirs]]
    /\ calls' = calls + 1
    /\ UNCHANGED <<fs, dirs, today, history, gen, par, ext, app>>

\* a variant of lines 164-168 without the existence test
RenameFile_CheckSource_NoTest(p) ==
    /\ proc[p].pc = "check_source"
    /\ LET me == proc[p]
           g  == generate_filename(me.info, me.file_format, me.self_format, today)
       IN  proc' =
             IF ~g.ok THEN Raise(p, "ValueError")
             ELSE [proc EXCEPT ![p].pc = "mkdir", ![p].filename = g.name]
    /\ UNCHANGED <<fs, dirs, today, calls, history, gen, par, ext, app>>

\* lines 164-168: the source must exist; then the filename is generated
RenameFile_CheckSource(p) ==
    /\ proc[p].pc = "check_source"
    /\ LET me == proc[p]
           g  == generate_filename(me.info, me.file_format, me.self_format, today)
       IN  proc' =
             IF ~Exists(fs, dirs, me.source_path) THEN Raise(p, "FileNotFoundError")
             ELSE IF ~g.ok THEN Raise(p, "ValueError")
             ELSE [proc EXCEPT ![p].pc = "mkdir", ![p].filename = g.name]
    /\ UNCHANGED <<fs, dirs, today, calls, history, gen, par, ext, app>>

\* lines 171-177: the target directory (created when an output folder is
\* configured) and the target path
RenameFile_Mkdir(p) ==
    /\ proc[p].pc = "mkdir"
    /\ LET me == proc[p]
           target_dir == IF TruthyObj(me.output_folder) THEN me.output_folder[1]
                         ELSE Parent(me.source_path)
           target_path == JoinPath(target_dir, me.filename)
       IN  /\ dirs' = IF TruthyObj(me.output_folder) THEN dirs \cup {target_dir.dir}
                      ELSE dirs
           /\ proc' = [proc EXCEPT ![p].pc = "exists_target",
                                   ![p].target_path = target_path,
                                   ![p].desired = target_path]
    /\ UNCHANGED <<fs, today, calls, history, gen, par, ext, app>>

\* a variant of the condition of line 180 without the comparison of the paths
is_collision_NoSelfTest(f, d, target_path, source_path) == Exists(f, d, target_path)

\* the condition of line 180: target_path.exists() and
\* target_path != source_path (Path.__ne__ compares the paths as spelled)
is_collision(f, d, target_path, source_path) ==
    Exists(f, d, target_path) /\ target_path # source_path

\* line 180: the branch on the condition
RenameFile_ExistsTarget(p) ==
    /\ proc[p].pc = "exists_target"
    /\ LET me == proc[p]
       IN  proc' = [proc EXCEPT ![p].pc =
                IF is_collision(fs, dirs, me.target_path, me.source_path)
                THEN "hash1" ELSE "log_hash"]
    /\ UNCHANGED <<fs, dirs, today, calls, history, gen, par, ext, app>>

\* line 243 (in _files_are_identical): hash1; an exception makes the answer
\* False (lines 246-248)
FilesAreIdentical_Hash1(p) ==
    /\ proc[p].pc = "hash1"
    /\ LET me == proc[p]
           h  == compute_full_hash(fs, dirs, me.source_path)
       IN  proc' = [proc EXCEPT ![p].pc = IF IsNone(h) THEN "collision_hash" ELSE "hash2",
                                ![p].hash1 = h,
                                ![p].compare = IF IsNone(h) THEN "failed" ELSE "read",
                                ![p].hashed = @ \cup {Resolve(me.source_path)}]
    /\ UNCHANGED <<fs, dirs, today, calls, history, gen, par, ext, app>>

\* a variant of _files_are_identical that never finds two files identical
files_are_identical_Never(hash1, hash2) == FALSE

\* the answer of _files_are_identical from the two digests (line 245), False
\* when the second could not be read (lines 246-248)
files_are_identical(hash1, hash2) == ~IsNone(hash2) /\ hash1 = hash2

\* lines 244-245 and the branch of line 182
FilesAreIdentical_Hash2(p) ==
    /\ proc[p].pc = "hash2"
    /\ LET me == proc[p]
           h2 == compute_full_hash(fs, dirs, me.target_path)
       IN  proc' = [proc EXCEPT ![p].pc = IF files_are_identical(me.hash1, h2)
                                          THEN "unlink" ELSE "collision_hash",
                                ![p].compare = IF IsNone(h2) THEN "failed" ELSE "compared",
                                ![p].hashed = @ \cup {Resolve(me.target_path)}]
    /\ UNCHANGED <<fs, dirs, today, calls, history, gen, par, ext, app>>

\* a variant of line 185 that unlinks the source instead of the target
RenameFile_Unlink_Source(p) ==
    /\ proc[p].pc = "unlink"
    /\ fs' = unlink(fs, proc[p].source_path)
    /\ proc' = [proc EXCEPT ![p].pc = "log_hash"]
    /\ UNCHANGED <<dirs, today, calls, history, gen, par, ext, app>>

\* line 185: target_path.unlink(), a FileNotFoundError if it is gone
RenameFile_Unlink(p) ==
    /\ proc[p].pc = "unlink"
    /\ LET me == proc[p]
       IN  IF Exists(fs, dirs, me.target_path)
           THEN /\ fs' = unlink(fs, me.target_path)
                /\ proc' = [proc EXCEPT ![p].pc = "log_hash"]
           ELSE /\ fs' = fs
                /\ proc' = Raise(p, "FileNotFoundError")
    /\ UNCHANGED <<dirs, today, calls, history, gen, par, ext, app>>

\* "{stem}_{short_hash}.pdf" (line 217)
HashedName(stem, short_hash) == stem \o <<"_">> \o short_hash \o PDF

\* a variant of line 223 that numbers the names from 2
CountedName_From2(stem, short_hash, counter) ==
    stem \o <<"_">> \o short_hash \o <<"_">> \o Str(counter + 1) \o PDF

\* "{stem}_{short_hash}_{counter}.pdf" (line 223)
CountedName(stem, short_hash, counter) ==
    stem \o <<"_">> \o short_hash \o <<"_">> \o Str(counter) \o PDF

\* lines 213-221 (in _handle_collision): the source's short hash and the
\* first candidate
HandleCollision_Hash(p) ==
    /\ proc[p].pc = "collision_hash"
    /\ LET me   == proc[p]
           sh   == compute_short_hash(fs, dirs, me.source_path)
           stem == Stem(me.target_path.name)
       IN  proc' =
             IF IsNone(sh) THEN Raise(p, "FileNotFoundError")
             ELSE [proc EXCEPT ![p].pc = "collision_probe",
                               ![p].short_hash = sh[1], ![p].stem = stem,
                               ![p].new_target =
                                   JoinPath(Parent(me.target_path), HashedName(stem, sh[1])),
                               ![p].counter = 1,
                               ![p].hashed = @ \cup {Resolve(me.source_path)}]
    /\ UNCHANGED <<fs, dirs, today, calls, history, gen, par, ext, app>>

\* lines 222-229: one test of the while loop; on exit the candidate becomes
\* the target path (line 188)
HandleCollision_Probe(p) ==
    /\ proc[p].pc = "collision_probe"
    /\ LET me == proc[p]
       IN  proc' =
             IF Exists(fs, dirs, me.new_target)
             THEN [proc EXCEPT ![p].new_target =
                       JoinPath(Parent(me.target_path),
                                CountedName(me.stem, me.short_hash, me.counter)),
                               ![p].counter = me.counter + 1]
             ELSE [proc EXCEPT ![p].pc = "log_hash", ![p].target_path = me.new_target]
    /\ UNCHANGED <<fs, dirs, today, calls, history, gen, par, ext, app>>

\* line 191: the source is hashed for the log line
RenameFile_LogHash(p) ==
    /\ proc[p].pc = "log_hash"
    /\ LET me == proc[p]
           sh == compute_short_hash(fs, dirs, me.source_path)
       IN  proc' =
             IF IsNone(sh) THEN Raise(p, "FileNotFoundError")
             ELSE [proc EXCEPT ![p].pc = "move",
                               ![p].hashed = @ \cup {Resolve(me.source_path)}]
    /\ UNCHANGED <<fs, dirs, today, calls, history, gen, par, ext, app>>

\* line 195: shutil.move(source_path, target_path)
RenameFile_Move(p) ==
    /\ proc[p].pc = "move"
    /\ LET me == proc[p]
       IN  IF Exists(fs, dirs, me.source_path)
           THEN /\ fs' = shutil_move(fs, me.source_path, me.target_path)
                /\ proc' = [proc EXCEPT ![p].pc = "return",
                                        ![p].moved = Some(me.target_path)]
           ELSE /\ fs' = fs
                /\ proc' = Raise(p, "FileNotFoundError")
    /\ UNCHANGED <<dirs, today, calls, history, gen, par, ext, app>>

\* line 199: return target_path
RenameFile_Return(p) ==
    /\ proc[p].pc = "return"
    /\ proc' = [proc EXCEPT ![p].pc = "done", ![p].outcome = "returned",
                            ![p].result = proc[p].target_path]
    /\ UNCHANGED <<fs, dirs, today, calls, history, gen, par, ext, app>>

\* The caller takes the result (or the exception); a returned path is a
\* placement of the source's content under the desired name.
Placement(me) ==
    [dir |-> me.desired.dir, filename |-> me.filename,
     content |-> me.fs0[Resolve(me.source_path)]]

Caller_Collect(p) ==
    /\ proc[p].pc = "done"
    /\ history' = IF proc[p].outcome = "returned"
                  THEN history \cup {Placement(proc[p])} ELSE history
    /\ proc' = [proc EXCEPT ![p] = IdleProc]
    /\ UNCHANGED <<fs, dirs, today, calls, gen, par, ext, app>>

Steps(p) ==
    \/ RenameFile_CheckSource(p)
    \/ RenameFile_Mkdir(p)
    \/ RenameFile_ExistsTarget(p)
    \/ FilesAreIdentical_Hash1(p)
    \/ FilesAreIdentical_Hash2(p)
    \/ RenameFile_Unlink(p)
    \/ HandleCollision_Hash(p)
    \/ HandleCollision_Probe(p)
    \/ RenameFile_LogHash(p)
    \/ RenameFile_Move(p)
    \/ RenameFile_Return(p)
    \/ Caller_Collect(p)

IdleGen == [pc |-> "idle"]

IdlePar == [pc |-> "idle"]

IdleExt == [pc |-> "idle"]

IdleApp == [pc |-> "idle"]

Init ==
    /\ fs = [k \in InboxFiles |-> InboxContents[CHOOSE i \in DOMAIN InboxContents : k[2] = SourceName(i)]]
    /\ dirs = {"inbox"}
    /\ today = Date(2026, 1, 5)
    /\ proc = [p \in Procs |-> IdleProc]
    /\ calls = 0
    /\ history = {}
    /\ gen = IdleGen
    /\ par = IdlePar
    /\ ext = IdleExt
    /\ app = IdleApp

\* the synchronous pipeline: one rename_file at a time
Next == \E p \in Procs : RenameFile_Call(p, SeqInputs) \/ Steps(p)

Spec == Init /\ [][Next]_vars

(***************************************************************************)
(* Parallel invocations (spec section 5): two callers, each with a source  *)
(* file of its own, placing into the output folder under one name.         *)
(***************************************************************************)
MaxConcCalls == 3

ConcInputs ==
    [exclusive |-> FALSE, procs |-> Procs, max_calls |-> MaxConcCalls,
     spellings |-> {"abs"},
     requests |-> {Request(Jane(Some(Dec18), None), None, "appt_billing")},
     output_folders |-> {Some(OutputFolder)}]

ConcNext == \E p \in Procs : RenameFile_Call(p, ConcInputs) \/ Steps(p)

ConcSpec == Init /\ [][ConcNext]_vars

(***************************************************************************)
(* _handle_collision against directories that already hold some of the     *)
(* names it tries                                                          *)
(***************************************************************************)
\* the number of candidate names the output folder may already hold
MaxTaken == 3

CollisionRequest == Request(Jane(Some(Dec18), None), None, "appt_billing")

\* the name every call of this specification asks for
DesiredName ==
    generate_filename(CollisionRequest.info, None, "appt_billing", Date(2026, 1, 5)).name

\* the k-th name _handle_collision tries for a source of the given content
\* (lines 217 and 223)
TakenName(content, k) ==
    IF k = 0
    THEN HashedName(Stem(DesiredName), SubSeq(md5_hexdigest(content), 1, 6))
    ELSE CountedName(Stem(DesiredName), SubSeq(md5_hexdigest(content), 1, 6), k)

CollisionInputs ==
    [exclusive |-> TRUE, procs |-> {1}, max_calls |-> 1,
     spellings |-> {"abs"}, requests |-> {CollisionRequest},
     output_folders |-> {Some(OutputFolder)}]

\* the inbox holds one file of content 1; the output folder holds the desired
\* name with content 2 and any of the first MaxTaken names tried for content 1
CollisionInit ==
    /\ \E taken \in SUBSET (0..(MaxTaken - 1)) :
          fs = [k \in {<<"inbox", SourceName(1)>>, <<"out", DesiredName>>}
                      \cup {<<"out", TakenName(1, j)>> : j \in taken} |->
                    IF k[1] = "inbox" THEN 1 ELSE 2]
    /\ dirs = {"inbox", "out"}
    /\ today = Date(2026, 1, 5)
    /\ proc = [p \in Procs |-> IdleProc]
    /\ calls = 0
    /\ history = {}
    /\ gen = IdleGen
    /\ par = IdlePar
    /\ ext = IdleExt
    /\ app = IdleApp

CollisionNext == RenameFile_Call(1, CollisionInputs) \/ Steps(1)

\* a call that has been made runs to its end: rename_file is synchronous
\* code without a wait
CollisionSpec == CollisionInit /\ [][CollisionNext]_vars /\ WF_vars(Steps(1))

(***************************************************************************)
(* rename_file on paths spelled in two ways (relative and absolute), with  *)
(* the folder of the sources configured as the output folder               *)
(***************************************************************************)
InboxFolder == [sp |-> "abs", dir |-> "inbox"]

AliasInputs ==
    [exclusive |-> TRUE, procs |-> {1}, max_calls |-> MaxCalls,
     spellings |-> {"abs", "rel"},
     requests |-> {Request(Jane(Some(Dec18), None), None, "appt_billing")},
     output_folders |-> {None, Some(InboxFolder)}]

AliasNext == \E p \in Procs : RenameFile_Call(p, AliasInputs) \/ Steps(p)

AliasSpec == Init /\ [][AliasNext]_vars

(***************************************************************************)
(* rename_file for patients whose fields carry path separators and dots    *)
(***************************************************************************)
\* "../x" and "a/b\c": names that would leave the target directory if they
\* reached the path as they are
Climbing == PatientInfo(<<"a", "/", "b", "\\", "c">>, <<".", ".", "/", "x">>,
                        Some(Dec18), None)

\* "/" as the whole last name and a date code with separators
Rooted == PatientInfo(<<".", ".">>, <<"/">>, None,
                      Some(<<"D", "O", "B", ":", "0", "3", "/", "1", "5">>))

PlacementInputs ==
    [exclusive |-> TRUE, procs |-> {1}, max_calls |-> MaxCalls,
     spellings |-> {"abs"},
     requests |-> {Request(Climbing, None, "appt_billing"),
                   Request(Rooted, None, "appt_billing")},
     output_folders |-> {None, Some(OutputFolder)}]

PlacementNext == \E p \in Procs : RenameFile_Call(p, PlacementInputs) \/ Steps(p)

PlacementSpec == Init /\ [][PlacementNext]_vars

(***************************************************************************)
(* generate_filename applied directly to a PatientInfo and a format        *)
(***************************************************************************)
FirstNames == {<<>>, <<"J", "o">>, <<"a", "/", "\\", ":", "b">>}

LastNames == {<<>>, <<"D", "o", "e", " ", "2">>, <<"<", ">", "\"", "|", "?", "*", "X">>}

AppointmentDates == {None, Some(Dec18), Some(Date(2024, 2, 5))}

DateCodes == {None, Some(<<>>), Some(DOI010125), Some(<<"D", "O", "B", ":", "0", "3", "/", "1", "5">>)}

FilenameRequests ==
    {Request(PatientInfo(first, last, appt, code), ff, sf) :
        first \in FirstNames, last \in LastNames, appt \in AppointmentDates,
        code \in DateCodes, ff \in {None} \cup {Some(f) : f \in FileFormat},
        sf \in FileFormat}

FilenameInit ==
    /\ fs = <<>>
    /\ dirs = {}
    /\ today \in TodayDates
    /\ proc = [p \in Procs |-> IdleProc]
    /\ calls = 0
    /\ history = {}
    /\ \E req \in FilenameRequests : gen = [pc |-> "ready", req |-> req]
    /\ par = IdlePar
    /\ ext = IdleExt
    /\ app = IdleApp

\* the call generate_filename(info, file_format) on a renamer built with
\* self_format
GenerateFilename_Apply ==
    /\ gen.pc = "ready"
    /\ gen' = [pc |-> "done", req |-> gen.req,
               out |-> generate_filename(gen.req.info, gen.req.file_format,
                                         gen.req.self_format, today)]
    /\ UNCHANGED <<fs, dirs, today, proc, calls, history, par, ext, app>>

FilenameNext == GenerateFilename_Apply

FilenameSpec == FilenameInit /\ [][FilenameNext]_vars

(***************************************************************************)
(* _normalize_whitespace applied to a text, and again to its result        *)
(***************************************************************************)
\* the longest text handed to the normaliser
MaxTextLen == 5

\* a letter, the whitespace characters of a page's text, and the line break
TextChars == {"a", " ", "\t", "\r", "\n"}

Texts == UNION {[1..n -> TextChars] : n \in 0..MaxTextLen}

NormalizeInit ==
    /\ fs = <<>>
    /\ dirs = {}
    /\ today = Date(2026, 1, 5)
    /\ proc = [p \in Procs |-> IdleProc]
    /\ calls = 0
    /\ history = {}
    /\ gen = IdleGen
    /\ par = IdlePar
    /\ \E text \in Texts : ext = [pc |-> "ready", text |-> text]
    /\ app = IdleApp

\* the call _normalize_whitespace(text), and the call on what it returned
Normalize_Apply ==
    /\ ext.pc = "ready"
    /\ \E once \in {normalize_whitespace(ext.text)} :
           ext' = [pc |-> "done", text |-> ext.text, once |-> once,
                   twice |-> normalize_whitespace(once)]
    /\ UNCHANGED <<fs, dirs, today, proc, calls, history, gen, par, app>>

NormalizeNext == Normalize_Apply

NormalizeSpec == NormalizeInit /\ [][NormalizeNext]_vars

(***************************************************************************)
(* The documents and filenames handed to parse                             *)
(***************************************************************************)
\* A name line: its text, the word tokens of the name it shows (the
\* annotation apart) and the date code its annotation carries.
NameLines ==
    {[text |-> <<"T", "e", "s", "t", " ", "P", "a", "t", "i", "e", "n", "t", " ", "1">>,
     tokens |-> <<<<"T", "e", "s", "t">>, <<"P", "a", "t", "i", "e", "n", "t">>, <<"1">>>>,
     code |-> None],
     [text |-> <<"T", "e", "s", "t", " ", "P", "a", "t", "i", "e", "n", "t", " ", "1", " ", "(", "D", "O", "I", ":", "0", "1", "0", "1", "2", "5", ")">>,
     tokens |-> <<<<"T", "e", "s", "t">>, <<"P", "a", "t", "i", "e", "n", "t">>, <<"1">>>>,
     code |-> Some(<<"D", "O", "I", "0", "1", "0", "1", "2", "5">>)],
     [text |-> <<"M", "a", "r", "y", " ", "J", "a", "n", "e", " ", "W", "a", "t", "s", "o", "n", " ", "2">>,
     tokens |-> <<<<"M", "a", "r", "y">>, <<"J", "a", "n", "e">>, <<"W", "a", "t", "s", "o", "n">>, <<"2">>>>,
     code |-> None],
     [text |-> <<"M", "a", "r", "y", " ", "J", "a", "n", "e", " ", "W", "a", "t", "s", "o", "n", " ", "2", " ", "(", "d", "o", "b", ":", " ", "0", "3", "/", "1", "5", "/", "9", "0", ")">>,
     tokens |-> <<<<"M", "a", "r", "y">>, <<"J", "a", "n", "e">>, <<"W", "a", "t", "s", "o", "n">>, <<"2">>>>,
     code |-> Some(<<"D", "O", "B", "0", "3", "1", "5", "9", "0">>)],
     [text |-> <<"M", "a", "d", "o", "n", "n", "a">>,
     tokens |-> <<<<"M", "a", "d", "o", "n", "n", "a">>>>,
     code |-> None],
     [text |-> <<"(", "D", "O", "I", ":", "0", "1", "0", "1", "2", "5", ")">>,
     tokens |-> <<>>,
     code |-> Some(<<"D", "O", "I", "0", "1", "0", "1", "2", "5">>)],
     [text |-> <<"M", "a", "r", "y", " ", "A", "n", "n", " ", "M", "a", "e", " ", "A", "n", "d", "e", "r", "s">>,
     tokens |-> <<<<"M", "a", "r", "y">>, <<"A", "n", "n">>, <<"M", "a", "e">>, <<"A", "n", "d", "e", "r", "s">>>>,
     code |-> None],
     [text |-> <<"P", "a", "t", "i", "e", "n", "t", " ", "1", " ", "(", "D", "O", "B", "0", "1", "-", "0", "2", "-", "2", "5", ")">>,
     tokens |-> <<<<"P", "a", "t", "i", "e", "n", "t">>, <<"1">>>>,
     code |-> Some(<<"D", "O", "B", "0", "1", "0", "2", "2", "5">>)],
     [text |-> <<"t", "e", "s", "t", " ", " ", "p", "a", "t", "i", "e", "n", "t", "\t", "1", "2">>,
     tokens |-> <<<<"t", "e", "s", "t">>, <<"p", "a", "t", "i", "e", "n", "t">>, <<"1", "2">>>>,
     code |-> None],
     [text |-> <<"T", "e", "s", "t", " ", "P", "a", "t", "i", "e", "n", "t", " ", "(", "D", "O", "I", ":", " ", "0", "1", "0", "1", "2", "5", ")">>,
     tokens |-> <<<<"T", "e", "s", "t">>, <<"P", "a", "t", "i", "e", "n", "t">>>>,
     code |-> Some(<<"D", "O", "I", "0", "1", "0", "1", "2", "5">>)],
     [text |-> <<"T", "e", "s", "t", " ", "P", "a", "t", "i", "e", "n", "t", " ", "1", " ", "(", "D", "O", "I", ":", "0", "1", "0", "1", ")">>,
     tokens |-> <<<<"T", "e", "s", "t">>, <<"P", "a", "t", "i", "e", "n", "t">>, <<"1">>, <<"(", "D", "O", "I", ":", "0", "1", "0", "1", ")">>>>,
     code |-> None],
     [text |-> <<"J", "o", " ", "D", "o", "e">>,
     tokens |-> <<<<"J", "o">>, <<"D", "o", "e">>>>,
     code |-> None]}

\* A date line: its text, whether DATE_PATTERN matches it and, if so, whether
\* the match is a calendar date, and the date.
Dec18Line ==
    [text |-> <<"D", "e", "c", "e", "m", "b", "e", "r", " ", "1", "8", ",", " ", "2", "0", "2", "5">>,
     kind |-> "valid", date |-> Some(Date(2025, 12, 18))]

Feb30Line ==
    [text |-> <<"F", "e", "b", "r", "u", "a", "r", "y", " ", "3", "0", ",", " ", "2", "0", "2", "5">>,
     kind |-> "invalid", date |-> None]

Jan5Line ==
    [text |-> <<"o", "n", " ", "j", "a", "n", "u", "a", "r", "y", " ", " ", "5", ",", "2", "0", "2", "4", ".">>,
     kind |-> "valid", date |-> Some(Date(2024, 1, 5))]

Feb29Line ==
    [text |-> <<"F", "E", "B", "R", "U", "A", "R", "Y", " ", "2", "9", ",", " ", "2", "0", "2", "4">>,
     kind |-> "valid", date |-> Some(Date(2024, 2, 29))]

Apr31Line ==
    [text |-> <<"A", "p", "r", "i", "l", " ", "3", "1", ",", " ", "0", "0", "0", "0">>,
     kind |-> "invalid", date |-> None]

NoDateLine ==
    [text |-> <<"N", "o", " ", "d", "a", "t", "e", " ", "h", "e", "r", "e">>,
     kind |-> "nomatch", date |-> None]

Dec181Line ==
    [text |-> <<"D", "e", "c", "e", "m", "b", "e", "r", " ", "1", "8", "1", ",", " ", "2", "0", "2", "5">>,
     kind |-> "nomatch", date |-> None]

Mar15Line ==
    [text |-> <<"M", "a", "r", "c", "h", " ", "1", "5", ",", " ", "2", "0", "2", "4", "5">>,
     kind |-> "nomatch", date |-> None]

\* a second line that reads "chart"
ChartLine == [text |-> <<"c", "h", "a", "r", "t">>, kind |-> "nomatch", date |-> None]

\* the lines that follow the name line in a document
DateLineSeqs ==
    {<<>>, <<Dec18Line>>, <<NoDateLine>>, <<Feb30Line, Jan5Line>>,
     <<ChartLine, Dec18Line>>,
     <<Jan5Line, Dec18Line>>, <<Dec181Line, Feb29Line>>,
     <<Apr31Line, Dec18Line>>, <<Mar15Line, NoDateLine>>, <<Feb29Line, Feb30Line>>}

\* the line that anchors the name: none, "Chart", or padded upper case
AnchorLines == {None, Some(<<"C", "h", "a", "r", "t">>),
                Some(<<" ", "C", "H", "A", "R", "T", " ", "\t">>)}

\* A filename as the callers pass it (None where they pass none) with the
\* initials it carries.
Filenames ==
    {[name |-> None, hint |-> None],
     [name |-> Some(<<"C", "_", "T", "P", "_", "2", "0", "2", "5", "1", "2", "1", "8", "_", "8", ".", "p", "d", "f">>),
      hint |-> Some(<<"T", "P">>)],
     [name |-> Some(<<"C", "_", "M", "W", "_", "2", "0", "2", "5", "1", "2", "1", "8", "_", "8", ".", "p", "d", "f">>),
      hint |-> Some(<<"M", "W">>)],
     [name |-> Some(<<"C", "_", "M", "J", "_", "2", "0", "2", "5", "1", "2", "1", "8", "_", "8", ".", "p", "d", "f">>),
      hint |-> Some(<<"M", "J">>)],
     [name |-> Some(<<"C", "_", "M", "A", "_", "2", "0", "2", "5", "1", "2", "1", "8", "_", "8", ".", "p", "d", "f">>),
      hint |-> Some(<<"M", "A">>)],
     [name |-> Some(<<"C", "_", "Z", "Z", "_", "2", "0", "2", "5", "1", "2", "1", "8", "_", "8", ".", "p", "d", "f">>),
      hint |-> Some(<<"Z", "Z">>)],
     [name |-> Some(<<"c", "_", "t", "p", "_", "2", "0", "2", "5", "1", "2", "1", "8", "_", "8", ".", "p", "d", "f">>),
      hint |-> None],
     [name |-> Some(<<>>),
      hint |-> None]}

\* A document: its anchor line, the number of blank lines after it, its name
\* line and the lines after that.
Documents ==
    [anchor : AnchorLines, gap : {0, 1},
     name : {None} \cup {Some(n) : n \in NameLines}, dates : DateLineSeqs]

\* the text extracted from a document: a header line, then its lines
TextOf(doc) ==
    join_lines(<<<<"J", "a", "n", "e">>>>
               \o doc.anchor
               \o [i \in 1..doc.gap |-> <<" ">>]
               \o [i \in 1..Len(doc.name) |-> doc.name[i].text]
               \o [i \in 1..Len(doc.dates) |-> doc.dates[i].text])

ParseInit ==
    /\ fs = <<>>
    /\ dirs = {}
    /\ today = Date(2026, 1, 5)
    /\ proc = [p \in Procs |-> IdleProc]
    /\ calls = 0
    /\ history = {}
    /\ gen = IdleGen
    /\ \E doc \in Documents, f \in Filenames :
          par = [pc |-> "ready", doc |-> doc, file |-> f]
    /\ ext = IdleExt
    /\ app = IdleApp

\* the call parse(text, filename)
Parse_Apply ==
    /\ par.pc = "ready"
    /\ \E text \in {TextOf(par.doc)} :
       \E locals \in {parse_locals(text, par.file.name)} :
           par' = [pc |-> "done", doc |-> par.doc, file |-> par.file,
                   text |-> text, locals |-> locals, out |-> returned(locals)]
    /\ UNCHANGED <<fs, dirs, today, proc, calls, history, gen, ext, app>>

ParseNext == Parse_Apply

ParseSpec == ParseInit /\ [][ParseNext]_vars

(***************************************************************************)
(* A sequence of parse calls on one PatientInfoParser, as PDFHandler makes  *)
(* them (src/app/watcher.py lines 28 and 62)                               *)
(***************************************************************************)
\* the number of documents the handler parses
MaxParses == 3

WatchedDocuments ==
    {doc \in Documents :
        /\ doc.anchor = Some(<<"C", "h", "a", "r", "t">>) /\ doc.gap = 0
        /\ doc.dates \in {<<>>, <<Dec18Line>>}
        /\ \/ doc.name = None
           \/ /\ doc.name # None
              /\ doc.name[1].code = None
              /\ Len(doc.name[1].tokens) \in {3, 4}
              /\ doc.name[1].tokens[1] \in {<<"T", "e", "s", "t">>, <<"M", "a", "r", "y">>}}

\* the filenames of the watched files: none passed, the hints MJ and MW, and
\* a name that carries no initials
WatchedFilenames ==
    {f \in Filenames : f.hint \in {None, Some(<<"M", "J">>), Some(<<"M", "W">>)}
                       /\ (f.name # None => TruthyStr(f.name))}

\* the parser as PDFHandler.__init__ builds it (line 28): no call made yet
WatchInit ==
    /\ fs = <<>>
    /\ dirs = {}
    /\ today = Date(2026, 1, 5)
    /\ proc = [p \in Procs |-> IdleProc]
    /\ calls = 0
    /\ history = {}
    /\ gen = IdleGen
    /\ par = [pc |-> "new", count |-> 0, hint |-> None]
    /\ ext = IdleExt
    /\ app = IdleApp

\* one call self.parser.parse(text, filename=pdf_path.name); hint is the
\* local initials of the call, previous that of the call before
Watch_Parse ==
    /\ par.count < MaxParses
    /\ \E doc \in WatchedDocuments, file \in WatchedFilenames :
       \E text \in {TextOf(doc)}, hint \in {hint_at_call(par.hint, file.name)} :
       \E locals \in {locals_of(hint, parse_patient_name(text, hint),
                                 parse_appointment_date(text))} :
           par' = [pc |-> "done", count |-> par.count + 1, hint |-> hint,
                   previous |-> par.hint, doc |-> doc, file |-> file,
                   text |-> text, locals |-> locals, out |-> returned(locals)]
    /\ UNCHANGED <<fs, dirs, today, proc, calls, history, gen, ext, app>>

WatchNext == Watch_Parse

WatchSpec == WatchInit /\ [][WatchNext]_vars

(***************************************************************************)
(* The automatic processing paths: run_cli (src/app/main.py), process_pdf  *)
(* of the web upload (src/app/web.py) and PDFHandler.process_pdf           *)
(* (src/app/watcher.py)                                                    *)
(***************************************************************************)
AppPaths == {"cli", "web", "watcher"}

\* PDFExtractor.extract_text for a file that shows the document: the pages'
\* text, normalised (extractor.py lines 60-61)
extract_text(doc) == normalize_whitespace(TextOf(doc))

\* the filename argument of the path's parse call: main.py line 101 and
\* watcher.py line 62 pass pdf_path.name, web.py line 54 passes none
filename_passed(path, name) == IF path = "web" THEN None ELSE Some(name)

\* a variant of the test of main.py line 104 with the threshold at 0.5
low_confidence_Half(info) ==
    info.confidence < 5 \/ Len(info.first_name) = 0 \/ Len(info.last_name) = 0

\* main.py line 104 and web.py line 57:
\*   info.confidence < 0.8 or not info.first_name or not info.last_name
low_confidence(info) ==
    info.confidence < 8 \/ Len(info.first_name) = 0 \/ Len(info.last_name) = 0

\* the path does not rename: watcher.py lines 64-70, main.py line 104,
\* web.py line 57
held_back(path, info) ==
    IF path = "watcher" THEN needs_review(info) \/ ~is_complete(info)
    ELSE low_confidence(info)

\* the documents the paths are run on
AppDocuments ==
    {doc \in Documents :
        /\ doc.gap = 0
        /\ doc.anchor \in {None, Some(<<"C", "h", "a", "r", "t">>)}
        /\ doc.dates \in {<<>>, <<Dec18Line>>, <<Feb30Line, Jan5Line>>}}

\* the file a path is run on, in the inbox under the name Jane gave it
AppSource(file) == [sp |-> "abs", dir |-> "inbox", name |-> file.name[1]]

\* the output folders a path can be given: the web upload always has one
\* (web.py lines 124-130)
AppOutputFolders(path) ==
    IF path = "web" THEN {Some(OutputFolder)} ELSE {None, Some(OutputFolder)}

\* what the target folder can hold before the path runs: nothing, or the file
\* an earlier run left under the name g of this document, with the same
\* content as the source (1) or with another (2)
AppEarlierFiles(dir, g) ==
    IF g.ok THEN {<<>>} \cup {(<<dir, g.name>> :> c) : c \in {1, 2}} ELSE {<<>>}

AppEarlier(path, doc, file, of) ==
    AppEarlierFiles(IF of = None THEN "inbox" ELSE of[1].dir,
                    generate_filename(parse(extract_text(doc),
                                            filename_passed(path, file.name[1])),
                                      None, "appt_billing", Date(2026, 1, 5)))

AppInit ==
    /\ today = Date(2026, 1, 5)
    /\ proc = [p \in Procs |-> IdleProc]
    /\ calls = 0
    /\ history = {}
    /\ gen = IdleGen
    /\ par = IdlePar
    /\ ext = IdleExt
    /\ \E path \in AppPaths, doc \in AppDocuments,
          file \in {f \in Filenames : TruthyStr(f.name)} :
       \E of \in AppOutputFolders(path) :
          /\ app = [pc |-> "ready", path |-> path, doc |-> doc, file |-> file,
                    output_folder |-> of, info |-> None]
          /\ \E earlier \in AppEarlier(path, doc, file, of) :
                /\ fs = earlier @@ (Resolve(AppSource(file)) :> 1)
                /\ dirs = {"inbox"} \cup {k[1] : k \in DOMAIN earlier}

\* the renamer's call rename_file(pdf_path, info): main.py lines 111-112,
\* web.py lines 69-72, watcher.py line 72 (the renamer of line 30)
App_RenameFile(info) ==
    /\ proc' = [proc EXCEPT ![1] =
          [IdleProc EXCEPT !.pc = "check_source", !.source_path = AppSource(app.file),
                           !.info = info, !.file_format = None,
                           !.self_format = "appt_billing",
                           !.output_folder = app.output_folder,
                           !.fs0 = fs, !.dirs0 = dirs]]
    /\ calls' = calls + 1

\* one path from its existence test to the call of rename_file or to the
\* point where it holds the file back; rename_file itself runs as Steps
App_Process ==
    /\ app.pc = "ready"
    /\ IF ~Exists(fs, dirs, AppSource(app.file))
       THEN /\ app' = [app EXCEPT !.pc = "not_found"]
            /\ UNCHANGED <<proc, calls>>
       ELSE \E text \in {extract_text(app.doc)} :
            \E info \in {parse(text, filename_passed(app.path, app.file.name[1]))} :
               IF held_back(app.path, info)
               THEN /\ app' = [app EXCEPT !.pc = "review", !.info = Some(info)]
                    /\ UNCHANGED <<proc, calls>>
               ELSE /\ app' = [app EXCEPT !.pc = "rename_file", !.info = Some(info)]
                    /\ App_RenameFile(info)
    /\ UNCHANGED <<fs, dirs, today, history, gen, par, ext>>

AppNext == App_Process \/ Steps(1)

AppSpec == AppInit /\ [][AppNext]_vars

(***************************************************************************)
(* Properties                                                              *)
(***************************************************************************)
Returned(p) == proc[p].pc = "done" /\ proc[p].outcome = "returned"

\* the source's content when the call began
SourceContent(me) == me.fs0[Resolve(me.source_path)]

\* the names of the files of directory d in filesystem f
NamesIn(f, d) == {k[2] : k \in {q \in DOMAIN f : q[1] = d}}

\* the call found another file at the desired target path
Collided(me) ==
    /\ Exists(me.fs0, me.dirs0, me.source_path)
    /\ Exists(me.fs0, me.dirs0, me.desired)
    /\ Resolve(me.desired) # Resolve(me.source_path)

CollidedDistinct(me) ==
    Collided(me) /\ me.fs0[Resolve(me.desired)] # SourceContent(me)

CollidedIdentical(me) ==
    Collided(me) /\ me.fs0[Resolve(me.desired)] = SourceContent(me)

\* the first 6 hex characters of the digest of the source's content
Hash6(me) == SubSeq(md5_hexdigest(SourceContent(me)), 1, 6)

\* the k-th name tried for a colliding source: "{stem}_{hash6}.pdf" for k = 0,
\* then "{stem}_{hash6}_{k}.pdf"
Candidate(me, k) ==
    IF k = 0 THEN Stem(me.filename) \o <<"_">> \o Hash6(me) \o PDF
    ELSE Stem(me.filename) \o <<"_">> \o Hash6(me) \o <<"_">> \o Str(k) \o PDF

\* the first candidate that named no file of the target directory when the
\* call began
FirstFree(me) ==
    LET taken == NamesIn(me.fs0, me.desired.dir)
    IN  CHOOSE k \in 0..Cardinality(taken) :
            /\ Candidate(me, k) \notin taken
            /\ \A j \in 0..(k - 1) : Candidate(me, j) \in taken

\* the existing target file is still there with its content
TargetUntouched(me) ==
    /\ Resolve(me.desired) \in DOMAIN fs
    /\ fs[Resolve(me.desired)] = me.fs0[Resolve(me.desired)]

\* C1 as stated: a source colliding with a different-content file at the
\* desired path is moved to "{stem}_{hash6}.pdf", and the existing target keeps
\* its content.
C1_AsStated ==
    \A p \in Procs : (Returned(p) /\ CollidedDistinct(proc[p])) =>
        /\ proc[p].result.name = Candidate(proc[p], 0)
        /\ TargetUntouched(proc[p])

\* C1, amended: a source colliding with a different-content file at the
\* desired path is moved, within the target directory, to "{stem}_{hash6}.pdf"
\* or, when that name is taken, to "{stem}_{hash6}_{k}.pdf" for the smallest
\* k >= 1 that is free; the moved file holds the source's content and the
\* existing target keeps its content.
C1_HashSuffixOnDistinctCollision ==
    \A p \in Procs : (proc[p].pc = "done" /\ CollidedDistinct(proc[p])) =>
        /\ proc[p].outcome = "returned"
        /\ proc[p].result.dir = proc[p].desired.dir
        /\ proc[p].result.name = Candidate(proc[p], FirstFree(proc[p]))
        /\ fs[Resolve(proc[p].result)] = SourceContent(proc[p])
        /\ TargetUntouched(proc[p])

\* a distinct-content collision that ended at a counted name
C1_Witness ==
    \E p \in Procs :
        /\ Returned(p) /\ CollidedDistinct(proc[p])
        /\ proc[p].result.name = Candidate(proc[p], 1)
        /\ proc[p].source_path.dir = "inbox"

\* C2: when the file at the desired target path is byte-identical to the
\* source, the call returns the desired path itself (no hash suffix, no
\* counter); afterwards that name holds the content, the target directory has
\* gained no other file, and the source path no longer exists.
C2_IdenticalReplacedInPlace ==
    \A p \in Procs : (proc[p].pc = "done" /\ CollidedIdentical(proc[p])) =>
        /\ proc[p].outcome = "returned"
        /\ proc[p].result = proc[p].desired
        /\ proc[p].result.name = proc[p].filename
        /\ fs[Resolve(proc[p].desired)] = SourceContent(proc[p])
        /\ NamesIn(fs, proc[p].desired.dir) =
             NamesIn(proc[p].fs0, proc[p].desired.dir)
               \ (IF proc[p].source_path.dir = proc[p].desired.dir
                  THEN {proc[p].source_path.name} ELSE {})
        /\ ~Exists(fs, dirs, proc[p].source_path)

C2_Witness ==
    \E p \in Procs :
        /\ Returned(p) /\ CollidedIdentical(proc[p])
        /\ proc[p].source_path.dir # proc[p].desired.dir

\* some file of directory d holds content c
Holds(f, d, c) == \E k \in DOMAIN f : k[1] = d /\ f[k] = c

\* C3 as stated: two parallel invocations on different source files with
\* different contents and the same desired path have both finished; both
\* contents are then in the target directory.
C3_AsStated ==
    \A p, q \in Procs :
        ( /\ p # q /\ Returned(p) /\ Returned(q)
          /\ proc[p].desired = proc[q].desired
          /\ Resolve(proc[p].source_path) # Resolve(proc[q].source_path)
          /\ SourceContent(proc[p]) # SourceContent(proc[q]) )
        => /\ Holds(fs, proc[p].desired.dir, SourceContent(proc[p]))
           /\ Holds(fs, proc[q].desired.dir, SourceContent(proc[q]))

\* the invocation has not yet completed its move
BeforeMove(p) == Active(p) /\ proc[p].pc # "return"

C5_AsStated ==
    \A p \in Procs :
        ( /\ Returned(p)
          /\ \A h \in history : /\ h.dir = proc[p].desired.dir
                                /\ h.filename = proc[p].filename
          /\ \E h \in history : h.content = SourceContent(proc[p])
          /\ \E k \in DOMAIN proc[p].fs0 :
                /\ k[1] = proc[p].desired.dir
                /\ k # Resolve(proc[p].source_path)
                /\ proc[p].fs0[k] = SourceContent(proc[p]) )
        => Cardinality(NamesIn(fs, proc[p].desired.dir))
             <= Cardinality(NamesIn(proc[p].fs0, proc[p].desired.dir))

\* C6: after rename_file returns a path other than the source path, the source
\* path no longer exists, the returned path holds exactly the source's
\* content, and it is the path the move wrote.
C6_ReturnedPathHoldsSource ==
    \A p \in Procs :
        (Returned(p) /\ proc[p].result # proc[p].source_path) =>
            /\ ~Exists(fs, dirs, proc[p].source_path)
            /\ Exists(fs, dirs, proc[p].result)
            /\ fs[Resolve(proc[p].result)] = SourceContent(proc[p])
            /\ proc[p].moved = Some(proc[p].result)

\* a file moved from the inbox into the output folder
C6_Witness ==
    \E p \in Procs :
        /\ Returned(p)
        /\ proc[p].source_path.dir = "inbox" /\ proc[p].result.dir = "out"

\* C7: a call whose source path does not exist ends with FileNotFoundError
\* right after the existence test, and nothing has happened: no directory
\* created, no file moved, deleted or hashed.
C7_MissingSourceChangesNothing ==
    \A p \in Procs :
        (proc[p].pc # "idle" /\ ~Exists(proc[p].fs0, proc[p].dirs0, proc[p].source_path)) =>
            /\ proc[p].pc \in {"check_source", "done"}
            /\ proc[p].pc = "done" => proc[p].outcome = "FileNotFoundError"
            /\ fs = proc[p].fs0 /\ dirs = proc[p].dirs0
            /\ proc[p].hashed = {} /\ proc[p].moved = None

\* the call on a missing source has failed, an output folder being configured
C7_Witness ==
    \E p \in Procs :
        /\ proc[p].pc = "done" /\ proc[p].outcome = "FileNotFoundError"
        /\ proc[p].source_path = MissingPath
        /\ proc[p].output_folder = Some(OutputFolder)

\* the format a request selects and whether it uses the current date
SelectedFormat(file_format, self_format) ==
    IF file_format = None THEN self_format ELSE file_format[1]

UsesCurrentDate(file_format, self_format) ==
    SelectedFormat(file_format, self_format) = "current_discharge"

\* no usable date: no date_code (absent or empty), no appointment_date, and a
\* format that does not use the current date
NoUsableDate(info, file_format, self_format) ==
    /\ info.date_code \in {None, Some(<<>>)}
    /\ info.appointment_date = None
    /\ ~UsesCurrentDate(file_format, self_format)

\* C8: generate_filename raises ValueError exactly when the PatientInfo has no
\* date_code (None or empty), no appointment_date, and the selected format
\* does not use the current date, and otherwise yields a filename; when
\* rename_file fails this way nothing has changed: no directory created, no
\* file moved, deleted or hashed.
C8_ValueErrorExactlyWithoutDate ==
    \A p \in Procs :
        LET me == proc[p]
        IN  (me.pc \notin {"idle", "check_source"}
             /\ Exists(me.fs0, me.dirs0, me.source_path)) =>
              IF NoUsableDate(me.info, me.file_format, me.self_format)
              THEN /\ me.pc = "done" /\ me.outcome = "ValueError"
                   /\ fs = me.fs0 /\ dirs = me.dirs0
                   /\ me.hashed = {} /\ me.moved = None
              ELSE /\ me.outcome # "ValueError"
                   /\ Len(me.filename) > 0

\* rename_file has raised ValueError for an empty date_code, an output folder
\* being configured
C8_Witness ==
    \E p \in Procs :
        /\ proc[p].pc = "done" /\ proc[p].outcome = "ValueError"
        /\ proc[p].info.date_code = Some(<<>>)
        /\ proc[p].output_folder = Some(OutputFolder)

\* two decimal digits of a number below 100
TwoDigits(n) == SubSeq(DIGITS, (n \div 10) + 1, (n \div 10) + 1)
                \o SubSeq(DIGITS, (n % 10) + 1, (n % 10) + 1)

\* the MMDDYY rendering of a date
MMDDYY(d) == TwoDigits(d.month) \o TwoDigits(d.day) \o TwoDigits(d.year % 100)

\* the template "{last_name}, {first_name} {date_string} {suffix}.pdf" with
\* the nine reserved characters removed
Rendered(req, date_string) ==
    LET raw == req.info.last_name \o <<",", " ">> \o req.info.first_name \o <<" ">>
               \o date_string \o <<" ">>
               \o FORMAT_CONFIG(SelectedFormat(req.file_format, req.self_format)).suffix
               \o PDF
    IN  SelectSeq(raw, LAMBDA ch : ch \notin {invalid_chars[i] : i \in DOMAIN invalid_chars})

\* the supplementary date of a request: today for a current-date format,
\* otherwise the appointment date (an Optional)
Supplementary(req) ==
    IF UsesCurrentDate(req.file_format, req.self_format) THEN Some(today)
    ELSE req.info.appointment_date

HasDateCode(req) == req.info.date_code \notin {None, Some(<<>>)}

C10_AsStated ==
    ( /\ gen.pc = "done" /\ HasDateCode(gen.req)
      /\ gen.req.info.date_code = Some(DOI010125)
      /\ gen.req.info.appointment_date # None )
    => /\ gen.out.ok
       /\ Contains(gen.out.name, gen.req.info.date_code[1])
       /\ ~Contains(gen.out.name, MMDDYY(gen.req.info.appointment_date[1]))
       /\ ~Contains(gen.out.name, MMDDYY(today))

\* the suffix the format table assigns to a format
TableSuffix(fmt) ==
    CASE fmt = "current_discharge" ->
           <<"P", "T", " ", "C", "h", "a", "r", "t", " ", "N", "o", "t", "e">>
      [] fmt = "appt_billing" ->
           <<"P", "T", " ", "N", "o", "t", "e">>
      [] fmt = "appt_billing_eval" ->
           <<"P", "T", " ", "E", "v", "a", "l", " ", "N", "o", "t", "e">>
      [] fmt = "appt_billing_progress" ->
           <<"P", "T", " ", "P", "r", "o", "g", "r", "e", "s", "s", " ",
             "N", "o", "t", "e">>
      [] fmt = "appt_billing_discharge" ->
           <<"P", "T", " ", "D", "i", "s", "c", "h", "a", "r", "g", "e", " ",
             "N", "o", "t", "e">>

\* the nine characters a filename must not contain
ReservedChars == {"/", "\\", ":", "<", ">", "\"", "|", "?", "*"}

HasReserved(s) == \E i \in DOMAIN s : s[i] \in ReservedChars

\* "{last_name}, {first_name} {date_string} {suffix}.pdf"
Template(last_name, first_name, date_string, suffix) ==
    last_name \o <<",", " ">> \o first_name \o <<" ">> \o date_string
    \o <<" ">> \o suffix \o <<".", "p", "d", "f">>

\* the date a request without date_code puts in the filename: today for
\* current_discharge, the appointment date (an Optional) for the other formats
PlainDate(req) ==
    IF SelectedFormat(req.file_format, req.self_format) = "current_discharge"
    THEN Some(today) ELSE req.info.appointment_date

\* C11: without a date_code (absent or empty), generate_filename returns
\* "{last_name}, {first_name} {MMDDYY} {suffix}.pdf" (less the reserved
\* characters, which a name may carry) where suffix is the format table's
\* suffix for the selected format, the format passed to the call overriding
\* the configured one, and MMDDYY renders today for current_discharge
\* (whatever appointment_date is) and the appointment date for the four
\* appt_billing formats.
C11_TemplateWithoutDateCode ==
    (gen.pc = "done" /\ ~HasDateCode(gen.req) /\ PlainDate(gen.req) # None) =>
        LET req == gen.req
            raw == Template(req.info.last_name, req.info.first_name,
                            MMDDYY(PlainDate(req)[1]),
                            TableSuffix(SelectedFormat(req.file_format, req.self_format)))
        IN  /\ gen.out.ok
            /\ gen.out.name = SelectSeq(raw, LAMBDA ch : ch \notin ReservedChars)
            /\ ~HasReserved(req.info.last_name \o req.info.first_name)
                  => gen.out.name = raw

\* current_discharge passed to a renamer configured for appt_billing_eval:
\* today's date and "PT Chart Note", although an appointment date is set
C11_Witness ==
    /\ gen.pc = "done" /\ gen.req.info.date_code = None
    /\ gen.req.file_format = Some("current_discharge")
    /\ gen.req.self_format = "appt_billing_eval"
    /\ gen.req.info.appointment_date = Some(Dec18)
    /\ today = Date(2026, 1, 5)
    /\ gen.out.name = <<"D", "o", "e", " ", "2", ",", " ", "J", "o", " ",
                        "0", "1", "0", "5", "2", "6", " ">>
                      \o TableSuffix("current_discharge") \o <<".", "p", "d", "f">>

\* C12: whenever generate_filename returns, the filename contains none of
\* the characters / \ : < > " | ? *, whichever of them first_name, last_name
\* or date_code carry.
C12_NoReservedCharacter ==
    (gen.pc = "done" /\ gen.out.ok) => ~HasReserved(gen.out.name)

\* a filename returned for names and a date_code that all carry reserved
\* characters
C12_Witness ==
    /\ gen.pc = "done" /\ gen.out.ok
    /\ HasReserved(gen.req.info.first_name)
    /\ HasReserved(gen.req.info.last_name)
    /\ HasDateCode(gen.req) /\ HasReserved(gen.req.info.date_code[1])
    /\ Contains(gen.out.name, <<"X", ",", " ", "a", "b", " ", "D", "O", "B", "0", "3", "1", "5">>)

\* the name was found and the effective date (appointment date or date code)
\* was found, for a finished parse
NameFound == par.locals.name.found

EffectiveDateFound == par.out.appointment_date # None \/ par.out.date_code # None

\* C13: the confidence of a parse result is 1.0 iff both the name and an
\* effective date (appointment date or date code) were found, 0.0 iff neither
\* was, and 0.5 otherwise; and it is the confidence the same text gets when no
\* filename (no initials hint) is supplied.
C13_ConfidenceLevels ==
    par.pc = "done" =>
        /\ par.out.confidence \in {0, 5, 10}
        /\ par.out.confidence = 10 <=> (NameFound /\ EffectiveDateFound)
        /\ par.out.confidence = 0 <=> (~NameFound /\ ~EffectiveDateFound)
        /\ par.out.confidence = parse(par.text, None).confidence

\* a name found with the help of a hint, and no date: confidence 0.5
C13_Witness ==
    /\ par.pc = "done" /\ par.locals.initials = Some(<<"M", "A">>)
    /\ par.out.first_name = <<"M", "a", "r", "y">>
    /\ ~EffectiveDateFound /\ par.out.confidence = 5

\* C14: parse returns a PatientInfo for every text and filename, and whenever
\* the name or the effective date was not found the confidence is at most 0.5
\* and needs_review() is true.
C14_FailuresDegradeToReview ==
    par.pc = "done" =>
        /\ DOMAIN par.out = {"first_name", "last_name", "appointment_date",
                             "confidence", "date_code"}
        /\ (~NameFound \/ ~EffectiveDateFound) =>
              (par.out.confidence <= 5 /\ needs_review(par.out))

\* a document without the anchor line: the date is found, the name is not
C14_Witness ==
    /\ par.pc = "done" /\ par.doc.anchor = None /\ par.doc.name # None
    /\ par.file.hint # None
    /\ par.out.appointment_date = Some(Date(2025, 12, 18))
    /\ par.out.last_name = <<>> /\ par.out.confidence = 5

\* the document shows its name on the name line: it has the anchor line and a
\* name line
NameShown == par.doc.anchor # None /\ par.doc.name # None

\* the name line ends with a number that whitespace separates from the rest
HasTrailingNumber(nl) ==
    /\ Len(nl.tokens) >= 2
    /\ \A i \in 1..Len(nl.tokens[Len(nl.tokens)]) :
          nl.tokens[Len(nl.tokens)][i] \in {"0", "1", "2", "3", "4", "5", "6", "7", "8", "9"}

\* the word tokens of the name once the annotation or, without one, the
\* trailing number is taken away
NameTokens(nl) ==
    IF nl.code = None /\ HasTrailingNumber(nl)
    THEN SubSeq(nl.tokens, 1, Len(nl.tokens) - 1) ELSE nl.tokens

\* tokens a..b with single spaces between them
RECURSIVE Spaced(_, _, _)
Spaced(tokens, a, b) ==
    IF a > b THEN <<>>
    ELSE IF a = b THEN tokens[a]
    ELSE tokens[a] \o <<" ">> \o Spaced(tokens, a + 1, b)

\* C15 as stated: when name extraction reports success both first_name and
\* last_name are non-empty.
C15_AsStated ==
    (par.pc = "done" /\ NameFound) =>
        (par.out.first_name # <<>> /\ par.out.last_name # <<>>)

\* C15, amended: when the name was not found both name fields are empty; when
\* it was found, both are non-empty if the name has at least two word tokens,
\* first_name is empty and last_name is the token if it has one, and both are
\* empty if it has none (a line that holds only an annotation).
C15_NameFieldsByTokenCount ==
    par.pc = "done" =>
        /\ ~NameFound => (par.out.first_name = <<>> /\ par.out.last_name = <<>>)
        /\ NameShown =>
              LET tokens == NameTokens(par.doc.name[1])
              IN  /\ NameFound
                  /\ Len(tokens) >= 2 =>
                        (par.out.first_name # <<>> /\ par.out.last_name # <<>>)
                  /\ Len(tokens) = 1 =>
                        (par.out.first_name = <<>> /\ par.out.last_name = tokens[1])
                  /\ Len(tokens) = 0 =>
                        (par.out.first_name = <<>> /\ par.out.last_name = <<>>)

\* a one-word name: found, with an empty first name
C15_Witness ==
    /\ par.pc = "done" /\ NameShown /\ NameFound
    /\ par.doc.name[1].tokens = <<<<"M", "a", "d", "o", "n", "n", "a">>>>
    /\ par.out.first_name = <<>> /\ par.out.last_name = <<"M", "a", "d", "o", "n", "n", "a">>

\* C16: when the name line carries no annotation and ends with whitespace
\* and digits, the number is removed before the split: first_name and
\* last_name are made of the tokens before it and do not contain it ("Test
\* Patient 1" gives "Test" and "Patient"; "Mary Jane Watson 2" without a hint
\* gives "Mary Jane" and "Watson").
C16_TrailingNumberStripped ==
    ( /\ par.pc = "done" /\ NameShown
      /\ par.doc.name[1].code = None /\ HasTrailingNumber(par.doc.name[1]) ) =>
        LET nl     == par.doc.name[1]
            tokens == NameTokens(nl)
            number == nl.tokens[Len(nl.tokens)]
        IN  /\ NameFound /\ par.out.date_code = None
            /\ IF Len(tokens) = 1
               THEN par.out.first_name = <<>> /\ par.out.last_name = tokens[1]
               ELSE par.out.first_name \o <<" ">> \o par.out.last_name
                      = Spaced(tokens, 1, Len(tokens))
            /\ ~Contains(par.out.first_name, number)
            /\ ~Contains(par.out.last_name, number)
            /\ nl.tokens = <<<<"T", "e", "s", "t">>, <<"P", "a", "t", "i", "e", "n", "t">>, <<"1">>>> =>
                  /\ par.out.first_name = <<"T", "e", "s", "t">>
                  /\ par.out.last_name = <<"P", "a", "t", "i", "e", "n", "t">>
            /\ (nl.tokens = <<<<"M", "a", "r", "y">>, <<"J", "a", "n", "e">>, <<"W", "a", "t", "s", "o", "n">>, <<"2">>>>
                  /\ par.file.hint = None) =>
                  /\ par.out.first_name = <<"M", "a", "r", "y", " ", "J", "a", "n", "e">>
                  /\ par.out.last_name = <<"W", "a", "t", "s", "o", "n">>

\* a two-digit number after a tab, removed
C16_Witness ==
    /\ par.pc = "done" /\ NameShown
    /\ par.doc.name[1].tokens = <<<<"t", "e", "s", "t">>, <<"p", "a", "t", "i", "e", "n", "t">>, <<"1", "2">>>>
    /\ par.out.first_name = <<"t", "e", "s", "t">>
    /\ par.out.last_name = <<"p", "a", "t", "i", "e", "n", "t">>

\* the initial of a word, upper-cased
Initial(word) ==
    LET lc == <<"a", "b", "c", "d", "e", "f", "g", "h", "i", "j", "k", "l", "m", "n", "o", "p", "q", "r", "s", "t", "u", "v", "w", "x", "y", "z">>
        uc == <<"A", "B", "C", "D", "E", "F", "G", "H", "I", "J", "K", "L", "M", "N", "O", "P", "Q", "R", "S", "T", "U", "V", "W", "X", "Y", "Z">>
    IN  IF \E i \in 1..26 : lc[i] = word[1]
        THEN uc[CHOOSE i \in 1..26 : lc[i] = word[1]] ELSE word[1]

\* the split points (number of first-name tokens) at which the initials of the
\* two groups are the letters of the hint
MatchingSplits(tokens, hint) ==
    {k \in 1..(Len(tokens) - 1) :
        Initial(tokens[1]) = hint[1] /\ Initial(tokens[k + 1]) = hint[2]}

\* the hint of the filename matches some split point of the name
HintMatches(tokens) ==
    par.file.hint # None /\ MatchingSplits(tokens, par.file.hint[1]) # {}

FirstMatch(tokens) ==
    CHOOSE k \in MatchingSplits(tokens, par.file.hint[1]) :
        \A j \in MatchingSplits(tokens, par.file.hint[1]) : k <= j

\* the name line of a finished parse carries an annotation
Annotated == par.pc = "done" /\ NameShown /\ par.doc.name[1].code # None

\* C17 as stated: with an annotation at the end of the name line, date_code
\* is the upper-cased code type and the three 2-digit groups, the annotation
\* is not in the name, and with a trailing numeric token the last name is the
\* final two tokens, both with a matching hint and in the fallback with at
\* least 3 tokens.
C17_AsStated ==
    Annotated =>
        LET nl == par.doc.name[1]
            n  == Len(nl.tokens)
        IN  /\ par.out.date_code = nl.code
            /\ ~Contains(par.out.first_name \o par.out.last_name, <<"(">>)
            /\ (HasTrailingNumber(nl) /\ (HintMatches(nl.tokens) \/ n >= 3)) =>
                  par.out.last_name = Spaced(nl.tokens, n - 1, n)

\* C17, amended: with an annotation at the end of the name line, date_code
\* is the upper-cased code type and the three 2-digit groups, the annotation
\* is not in the name, and a trailing numeric token stays in the last name:
\* with a matching hint the last name is every token from the first matching
\* split point on, and in the fallback with at least 3 tokens it is the final
\* two tokens.
C17_AnnotationKeepsNumber ==
    Annotated =>
        LET nl == par.doc.name[1]
            n  == Len(nl.tokens)
        IN  /\ par.out.date_code = nl.code
            /\ ~Contains(par.out.first_name \o par.out.last_name, <<"(">>)
            /\ HasTrailingNumber(nl) =>
                  /\ Contains(par.out.last_name, nl.tokens[n])
                  /\ HintMatches(nl.tokens) =>
                        /\ par.out.first_name = Spaced(nl.tokens, 1, FirstMatch(nl.tokens))
                        /\ par.out.last_name = Spaced(nl.tokens, FirstMatch(nl.tokens) + 1, n)
                  /\ (~HintMatches(nl.tokens) /\ n >= 3) =>
                        /\ par.out.first_name = Spaced(nl.tokens, 1, n - 2)
                        /\ par.out.last_name = Spaced(nl.tokens, n - 1, n)

\* "Test Patient 1 (DOI:010125)" without a hint
C17_Witness ==
    /\ Annotated /\ par.file.hint = None
    /\ par.out.first_name = <<"T", "e", "s", "t">>
    /\ par.out.last_name = <<"P", "a", "t", "i", "e", "n", "t", " ", "1">>
    /\ par.out.date_code = Some(<<"D", "O", "I", "0", "1", "0", "1", "2", "5">>)

\* C18: with a two-letter hint and a name of at least 2 tokens, the split is
\* the matching split point with the fewest first-name tokens; when no split
\* point matches, the names are those the same text gets without a hint.
C18_HintPicksFirstMatchingSplit ==
    ( /\ par.pc = "done" /\ NameShown /\ par.file.hint # None
      /\ Len(NameTokens(par.doc.name[1])) >= 2 ) =>
        LET tokens == NameTokens(par.doc.name[1])
        IN  IF HintMatches(tokens)
            THEN /\ par.out.first_name = Spaced(tokens, 1, FirstMatch(tokens))
                 /\ par.out.last_name =
                       Spaced(tokens, FirstMatch(tokens) + 1, Len(tokens))
            ELSE /\ par.out.first_name = parse(par.text, None).first_name
                 /\ par.out.last_name = parse(par.text, None).last_name

\* two split points match the hint MA and the fallback would take a third
C18_Witness ==
    /\ par.pc = "done" /\ NameShown /\ par.file.hint = Some(<<"M", "A">>)
    /\ Cardinality(MatchingSplits(NameTokens(par.doc.name[1]), <<"M", "A">>)) = 2
    /\ par.out.first_name = <<"M", "a", "r", "y">>
    /\ parse(par.text, None).first_name = <<"M", "a", "r", "y", " ", "A", "n", "n", " ", "M", "a", "e">>

\* the date lines of the document that DATE_PATTERN matches, in order
DateMatches == SelectSeq(par.doc.dates, LAMBDA l : l.kind # "nomatch")

\* C19: the appointment date comes from the first "MonthName DD, YYYY" match
\* only: if that match is not a calendar date the result is not-found,
\* whatever follows; if it is one, it is the result, whatever follows.
C19_FirstDateMatchOnly ==
    par.pc = "done" =>
        IF Len(DateMatches) = 0 \/ DateMatches[1].kind = "invalid"
        THEN par.out.appointment_date = None /\ ~par.locals.appt.found
        ELSE par.out.appointment_date = DateMatches[1].date /\ par.locals.appt.found

\* February 30 first, a valid date after it: no appointment date
C19_Witness ==
    /\ par.pc = "done" /\ par.doc.dates = <<Feb30Line, Jan5Line>>
    /\ par.out.appointment_date = None /\ ~par.locals.appt.found

\* the path names a direct child of directory d: it lies in d and its final
\* name is one path component, neither "." nor ".."
DirectChild(path, d) ==
    /\ path.dir = d
    /\ Len(path.name) > 0
    /\ \A i \in 1..Len(path.name) : path.name[i] \notin {"/", "\\"}
    /\ path.name \notin {<<".">>, <<".", ".">>}

\* C20: the path rename_file returns is a direct child of the output folder
\* when one is configured (the folder existing from then on) and of the
\* source's own directory when none is, whatever the PatientInfo holds; and
\* the file is there.
C20_ReturnedPathInTargetDirectory ==
    \A p \in Procs : Returned(p) =>
        LET me == proc[p]
            d  == IF me.output_folder = None THEN me.source_path.dir
                  ELSE me.output_folder[1].dir
        IN  /\ DirectChild(me.result, d)
            /\ d \in dirs
            /\ Exists(fs, dirs, me.result)

\* a patient named "../x" placed into an output folder this call created
C20_Witness ==
    \E p \in Procs :
        /\ Returned(p) /\ proc[p].info = Climbing
        /\ proc[p].output_folder = Some(OutputFolder)
        /\ "out" \notin proc[p].dirs0
        /\ proc[p].result.dir = "out"
        /\ proc[p].result.name = <<".", ".", "x", ",", " ", "a", "b", "c", " ",
                                   "1", "2", "1", "8", "2", "5", " ",
                                   "P", "T", " ", "N", "o", "t", "e", ".", "p", "d", "f">>

(***************************************************************************)
(* The whitespace normaliser                                               *)
(***************************************************************************)
\* the indexes that bound the lines of a text: before it, its line breaks,
\* and after it
Breaks(t) == {0, Len(t) + 1} \cup {i \in 1..Len(t) : t[i] = "\n"}

LineCount(t) == Cardinality(Breaks(t)) - 1

\* the k-th break of a text, counted from 0
BreakNo(t, k) == CHOOSE b \in Breaks(t) : Cardinality({c \in Breaks(t) : c < b}) = k

\* the k-th line of a text
LineNo(t, k) == SubSeq(t, BreakNo(t, k - 1) + 1, BreakNo(t, k) - 1)

\* the characters of a line that are not whitespace, in order
Ink(line) == SelectSeq(line, LAMBDA ch : ch \notin {" ", "\t", "\r", "\n"})

\* C21: normalising a normalised text returns it unchanged; the normalised
\* text has as many lines as the text, each line keeps its non-whitespace
\* characters in order, carries no whitespace but single spaces inside it, and
\* a blank line comes out empty.
C21_NormalizeIdempotentShapePreserving ==
    ext.pc = "done" =>
        /\ ext.twice = ext.once
        /\ LineCount(ext.once) = LineCount(ext.text)
        /\ \A k \in 1..LineCount(ext.text) :
              /\ Ink(LineNo(ext.once, k)) = Ink(LineNo(ext.text, k))
              /\ Ink(LineNo(ext.text, k)) = <<>> => LineNo(ext.once, k) = <<>>
              /\ \A i \in 1..Len(LineNo(ext.once, k)) :
                    LineNo(ext.once, k)[i] \in {"a", " "}

\* " a\t\n ": a padded line and a blank one become "a" and an empty line
C21_Witness ==
    /\ ext.pc = "done"
    /\ ext.text = <<" ", "a", "\t", "\n", " ">>
    /\ ext.once = <<"a", "\n">>
    /\ ext.twice = ext.once

(***************************************************************************)
(* The automatic processing paths                                          *)
(***************************************************************************)
\* C22: in each of the three paths, rename_file is invoked on a parse result
\* only if needs_review() is false for it: its confidence is at least 0.9 and
\* its first name, its last name and a date or a date code are present.
C22_NoRenameWhenReviewNeeded ==
    /\ app.pc = "rename_file" =>
          /\ ~needs_review(app.info[1])
          /\ app.info[1].confidence >= 9
          /\ app.info[1].first_name # <<>> /\ app.info[1].last_name # <<>>
          /\ app.info[1].appointment_date # None \/ app.info[1].date_code # None
    /\ \A p \in Procs :
          proc[p].pc # "idle" => (app.pc = "rename_file" /\ proc[p].info = app.info[1])
    /\ calls > 0 => app.pc = "rename_file"

\* the web upload renamed a file whose result carries only a date code, and
\* another path held back a result of confidence 0.5 with both names
C22_Witness ==
    \/ /\ app.pc = "rename_file" /\ app.path = "web"
       /\ proc[1].outcome = "returned"
       /\ app.info[1].appointment_date = None /\ app.info[1].date_code # None
    \/ /\ app.pc = "review" /\ app.path = "cli"
       /\ app.info[1].confidence = 5
       /\ app.info[1].first_name # <<>> /\ app.info[1].last_name # <<>>

(***************************************************************************)
(* Failures of the filesystem during rename_file                           *)
(***************************************************************************)
\* C23 (as stated): a failure to read the source or the existing target
\* while their contents are compared is propagated as an exception; no call
\* in which the comparison failed returns a path.
C23_AsStated ==
    \A p \in Procs :
        proc[p].compare = "failed" => proc[p].outcome # "returned"

(***************************************************************************)
(* The search of _handle_collision                                         *)
(***************************************************************************)
\* the names the search has passed over are all taken, and the name it is at
\* is the next in the order
ProbedInOrder(me, at) ==
    /\ me.new_target.name = Candidate(me, at)
    /\ me.new_target.dir = me.desired.dir
    /\ \A j \in 0..(at - 1) : <<me.desired.dir, Candidate(me, j)>> \in DOMAIN fs

\* C24: on a distinct-content collision the names are tried in the order
\* "{stem}_{hash6}.pdf", "{stem}_{hash6}_1.pdf", "{stem}_{hash6}_2.pdf", ...;
\* the name chosen is the first that names no file and names none when it is
\* chosen; and the search always ends.
C24_FirstFreeCandidateAndTermination ==
    /\ [](\A p \in Procs :
            /\ proc[p].pc = "collision_probe" =>
                  ProbedInOrder(proc[p], proc[p].counter - 1)
            /\ (proc[p].pc = "log_hash" /\ proc[p].counter > 0) =>
                  /\ ProbedInOrder(proc[p], proc[p].counter - 1)
                  /\ proc[p].target_path = proc[p].new_target
                  /\ ~Exists(fs, dirs, proc[p].target_path))
    /\ \A p \in Procs :
          (proc[p].pc = "collision_probe") ~> (proc[p].pc = "log_hash")

\* the search passed over MaxTaken taken names and chose the next
C24_Witness ==
    /\ proc[1].pc = "log_hash"
    /\ proc[1].counter = MaxTaken + 1
    /\ proc[1].target_path.name = Candidate(proc[1], MaxTaken)
    /\ CollidedDistinct(proc[1])

(***************************************************************************)
(* The anchor line and the name candidate line                             *)
(***************************************************************************)
\* the lines of the parsed document, as the document record lists them
DocLines(doc) ==
    <<<<"J", "a", "n", "e">>>> \o doc.anchor \o [i \in 1..doc.gap |-> <<" ">>]
    \o [i \in 1..Len(doc.name) |-> doc.name[i].text]
    \o [i \in 1..Len(doc.dates) |-> doc.dates[i].text]

\* the line reads "Chart" once trimmed and case-folded
IsAnchorLine(line) ==
    line \in {<<"C", "h", "a", "r", "t">>, <<" ", "C", "H", "A", "R", "T", " ", "\t">>,
              <<"c", "h", "a", "r", "t">>}

IsBlankLine(line) == \A i \in 1..Len(line) : line[i] \in {" ", "\t"}

Anchors(lines) == {i \in 1..Len(lines) : IsAnchorLine(lines[i])}

\* the lines after the first anchor line that are not blank
Candidates(lines) ==
    {i \in 1..Len(lines) :
        /\ \E a \in Anchors(lines) : a < i /\ \A b \in Anchors(lines) : a <= b
        /\ ~IsBlankLine(lines[i])}

\* C25: name extraction returns not-found (empty first and last name, no date
\* code, found flag false) exactly when no line reads "Chart" once trimmed and
\* case-folded or every line after the first such line is blank; otherwise the
\* name is taken from the first non-blank line after the first anchor line.
C25_NameFromFirstLineAfterFirstAnchor ==
    par.pc = "done" =>
        LET lines == DocLines(par.doc)
        IN  /\ split_on(par.text, "\n") = lines
            /\ ~NameFound <=> (Anchors(lines) = {} \/ Candidates(lines) = {})
            /\ ~NameFound =>
                  par.locals.name = NameResult(<<>>, <<>>, FALSE, None)
            /\ NameFound =>
                  par.locals.name =
                    split_name_and_code(
                        name_and_code(strip(lines[Least(Candidates(lines))])),
                        par.locals.initials)

\* a document with two anchor lines and a blank line after the first: the
\* name comes from the line after the blank one
C25_Witness ==
    /\ par.pc = "done"
    /\ Cardinality(Anchors(DocLines(par.doc))) = 2
    /\ par.doc.gap = 1
    /\ par.doc.name # None
    /\ par.out.first_name = <<"T", "e", "s", "t">>
    /\ par.out.last_name = <<"P", "a", "t", "i", "e", "n", "t">>

(***************************************************************************)
(* Calls in sequence on one parser                                         *)
(***************************************************************************)
\* C26: the result of each parse call on one parser is a function of that
\* call's text and filename alone; a document whose filename carries no
\* initials is split as if no document had been parsed before it.
C26_NoHintLeak ==
    par.pc = "done" =>
        /\ par.out = parse(par.text, par.file.name)
        /\ par.file.hint = None =>
              /\ par.locals.initials = None
              /\ par.out = parse(par.text, None)

\* after a call with the hint MJ, a call without a hint on a three-word name
\* gave the default split
C26_Witness ==
    /\ par.pc = "done" /\ par.count = MaxParses
    /\ par.previous = Some(<<"M", "J">>)
    /\ par.file.hint = None /\ par.file.name # None
    /\ par.out.first_name = <<"M", "a", "r", "y", " ", "J", "a", "n", "e">>
    /\ par.out.last_name = <<"W", "a", "t", "s", "o", "n">>

(***************************************************************************)
(* The source's content under two spellings of one path                    *)
(***************************************************************************)
\* the content the source had when the call began is at path now
HoldsSource(me, path) ==
    Exists(fs, dirs, path) /\ fs[Resolve(path)] = SourceContent(me)

\* C30 (as stated): after rename_file returns or raises, the content of a
\* source that existed is at the source path or at the returned path, also
\* when the target path is the source path under another spelling.
C30_AsStated ==
    \A p \in Procs :
        (proc[p].pc = "done" /\ Exists(proc[p].fs0, proc[p].dirs0, proc[p].source_path)) =>
            \/ HoldsSource(proc[p], proc[p].source_path)
            \/ proc[p].outcome = "returned" /\ HoldsSource(proc[p], proc[p].result)

(***************************************************************************)
(* The contents of the target directory across calls                       *)
(***************************************************************************)
\* the directory a call places into: the output folder, or the source's own
TargetDirOf(me) ==
    IF me.output_folder # None THEN me.output_folder[1].dir ELSE me.source_path.dir

\* the distinct contents held by the files of directory d in filesystem f
ContentsIn(f, d) == {f[k] : k \in {q \in DOMAIN f : q[1] = d}}

\* C27 (as stated): after each call of a sequence of calls, every content the
\* target directory held before the call, and the source's content once the
\* call has returned, is held by some file of the directory, and no file
\* whose content differs from the source's has been overwritten or deleted.
C27_AsStated ==
    \A p \in Procs :
        (proc[p].pc = "done" /\ Exists(proc[p].fs0, proc[p].dirs0, proc[p].source_path)) =>
            /\ ContentsIn(proc[p].fs0, TargetDirOf(proc[p]))
                  \subseteq ContentsIn(fs, TargetDirOf(proc[p]))
            /\ Returned(p) =>
                  SourceContent(proc[p]) \in ContentsIn(fs, TargetDirOf(proc[p]))
            /\ \A k \in DOMAIN proc[p].fs0 :
                  proc[p].fs0[k] # SourceContent(proc[p]) =>
                      (k \in DOMAIN fs /\ fs[k] = proc[p].fs0[k])

(***************************************************************************)
(* A source that already is the target                                     *)
(***************************************************************************)
\* the call has computed its target path, and it is the source path as the
\* caller spelled it
TargetIsSource(me) ==
    /\ me.pc \notin {"idle", "check_source", "mkdir"}
    /\ me.desired = me.source_path
    /\ Exists(me.fs0, me.dirs0, me.source_path)

\* C28: when the target path equals the source path, rename_file goes from
\* the test of line 180 straight to the move: it compares no hashes, deletes
\* nothing, leaves every file in place with its content, and returns that
\* path.
C28_SelfTargetMovesDirectly ==
    \A p \in Procs : TargetIsSource(proc[p]) =>
        /\ proc[p].pc \in {"exists_target", "log_hash", "move", "return", "done"}
        /\ proc[p].compare = "none"
        /\ proc[p].hash1 = None
        /\ fs = proc[p].fs0 /\ dirs = proc[p].dirs0
        /\ proc[p].pc = "done" =>
              /\ proc[p].outcome = "returned"
              /\ proc[p].result = proc[p].source_path
              /\ HoldsSource(proc[p], proc[p].source_path)

\* a file that an earlier call named was handed to rename_file again under
\* its relative spelling, with no output folder, and the call has returned
C28_Witness ==
    /\ TargetIsSource(proc[1]) /\ Returned(1)
    /\ proc[1].source_path.sp = "rel"
    /\ proc[1].source_path.name = proc[1].filename
    /\ history # {}

(***************************************************************************)
(* Completeness and renameability                                          *)
(***************************************************************************)
\* C29 (as stated): for every PatientInfo for which is_complete() is true,
\* an empty date_code without an appointment date included, generate_filename
\* returns a filename for each format and does not raise.
C29_AsStated ==
    (gen.pc = "done" /\ is_complete(gen.req.info)) => gen.out.ok

====
